---- MODULE Spec2Model ----
(***************************************************************************)
(* A model of the heap-free runtime substrate of kv: the fixed-capacity    *)
(* StackString (src/src/stack.rs), the JSON writer and its string escaping *)
(* (src/src/json.rs), the KEY=VALUE text writer (src/src/print.rs), the     *)
(* command-line parser (src/src/cli.rs) and the dispatch to a subcommand   *)
(* with its exit code (src/src/main.rs).                                   *)
(*                                                                         *)
(* Text is modelled as it is stored: a &str argument is a sequence of      *)
(* Unicode code points, StackString holds its UTF-8 bytes, the JSON        *)
(* writer's output String is a sequence of code points and the text        *)
(* writer's standard output is a sequence of bytes.                        *)
(***************************************************************************)
EXTENDS Integers, Sequences, FiniteSets, TLC

(***************************************************************************)
(* Bounds of the model.                                                    *)
(***************************************************************************)
\* largest capacity N of a StackString<N> that is explored
MaxCap == 3
\* longest &str argument (in characters) handed to from_str / push_str
MaxArgLen == 2
\* most writing calls (every call but the closing ones) made on a writer
MaxCalls == 4

VARIABLES
    \* ---- StackString<N> (src/src/stack.rs) ----
    cap,        \* the const generic N
    buf,        \* buf: [u8; N], bytes beyond len included
    len,        \* len: usize
    ret,        \* the bool returned by the last push / push_str
    aborted,    \* the process has panicked or aborted
    lastOp,     \* the operation that produced this state
    lastArg,    \* the UTF-8 bytes of that operation's argument
    \* ---- the serializers (src/src/json.rs, src/src/print.rs) ----
    fmt,        \* "json" or "text": the emitter the collector drives
    jw,         \* JsonWriter {output, pretty, indent_level, needs_comma}
    ctx,        \* the containers the caller has open, by opening call
    afterKey,   \* key() was the last call: a value must follow
    rootDone,   \* the outermost container has been closed
    bareValues, \* value_* calls made directly in an array
    tw,         \* TextWriter {first}
    stdout,     \* the bytes written to standard output
    tokens,     \* the KEY=VALUE tokens of the field calls, in call order
    finished,   \* TextWriter::finish has consumed the writer
    calls,      \* writing calls made so far
    lastCall,   \* the serializer call that produced this state
    \* ---- escape_string_into (src/src/json.rs) ----
    escIn,      \* s: the string to escape
    escPos,     \* the characters of s the loop has consumed
    escOut,     \* output: what has been pushed so far
    \* ---- one field name handed to both writers (src/src/fields.rs) ----
    fieldName,  \* the name, a constant of the fields module
    jsonKey,    \* the JsonWriter, once key(name) has been called on it
    textKey,    \* what TextWriter::key(name) printed, None before the call
    \* ---- one run of the program (src/src/cli.rs, src/src/main.rs) ----
    argv,       \* env::args(): the program name and the arguments
    kvDebug,    \* KV_DEBUG is set in the environment
    features,   \* the subcommands compiled into this build
    pc,         \* where the run is: "start", "options", "parsed", "exited"
    iter,       \* args_iter: the tokens GlobalOptions::parse has not read
    opts,       \* GlobalOptions
    remaining,  \* the tokens not recognised as global flags, in order
    subcommand, \* Invocation::subcommand
    warnings,   \* truncation warnings printed to standard error
    lastArm,    \* the match arm that handled the last token
    exitCode,   \* the status the process exited with, None while it runs
    dbgLog,     \* the stores and loads of DEBUG_ENABLED, in program order
    \* ---- matches_any (src/src/filter.rs) ----
    filterFields,    \* fields: the strings to search
    filterPattern,   \* pattern
    caseInsensitive, \* case_insensitive
    matched,    \* the bool returned, None before the call
    \* ---- the file readers (src/src/io.rs) ----
    file,       \* what the file system holds at the path
    ioCall,     \* the reader called
    ioRet,      \* the Option it returned
    \* ---- read_dt_recursive (src/src/dt.rs) ----
    tree,       \* the directory tree under base_path
    nodes,      \* nodes: the paths of the nodes collected so far
    frames,     \* the activations of read_dt_recursive, outermost first
    \* ---- two JsonWriters given the same calls (src/src/json.rs) ----
    wPretty,    \* JsonWriter::new(true)
    wCompact,   \* JsonWriter::new(false)
    pairCalls   \* calls made so far on each of the two

stackVars == <<cap, buf, len, ret, aborted, lastOp, lastArg>>
serVars == <<fmt, jw, ctx, afterKey, rootDone, bareValues, tw, stdout, tokens,
             finished, calls, lastCall>>
escVars == <<escIn, escPos, escOut>>
keyVars == <<fieldName, jsonKey, textKey>>
cliVars == <<argv, kvDebug, features, pc, iter, opts, remaining, subcommand, warnings,
             lastArm, exitCode, dbgLog>>
filterVars == <<filterFields, filterPattern, caseInsensitive, matched>>
ioVars == <<file, ioCall, ioRet>>
dtVars == <<tree, nodes, frames>>
pairVars == <<wPretty, wCompact, pairCalls>>
libVars == <<filterVars, ioVars, dtVars, pairVars>>
vars == <<stackVars, serVars, escVars, keyVars, cliVars, libVars>>

(***************************************************************************)
(* Helpers on numbers and sequences.                                       *)
(***************************************************************************)
Min(a, b) == IF a <= b THEN a ELSE b

Prefix(s, n) == SubSeq(s, 1, n)

RECURSIVE Flatten(_)
Flatten(ss) == IF ss = <<>> THEN <<>> ELSE Head(ss) \o Flatten(Tail(ss))

\* all sequences over S of length at most n
SeqsUpTo(S, n) == UNION {[1..k -> S] : k \in 0..n}

(***************************************************************************)
(* UTF-8.  char::encode_utf8 (stack.rs:65-66) and the validity that        *)
(* as_str() assumes of buf[..len] (stack.rs:40-41).                        *)
(***************************************************************************)
\* the characters the model draws its strings from: 'a', ' ' and U+00E9
\* (two bytes in UTF-8)
StackChars == {97, 32, 233}

Utf8Encode(c) ==
    IF c < 128 THEN <<c>>
    ELSE IF c < 2048 THEN <<192 + (c \div 64), 128 + (c % 64)>>
    ELSE IF c < 65536
         THEN <<224 + (c \div 4096), 128 + ((c \div 64) % 64), 128 + (c % 64)>>
    ELSE <<240 + (c \div 262144), 128 + ((c \div 4096) % 64),
           128 + ((c \div 64) % 64), 128 + (c % 64)>>

\* s.as_bytes() of a &str given as code points
AsBytes(s) == Flatten([i \in 1..Len(s) |-> Utf8Encode(s[i])])

IsCont(b) == b >= 128 /\ b <= 191

\* the number of bytes of the well-formed UTF-8 sequence that starts bs, or
\* 0 when bs starts with no well-formed sequence
Utf8SeqLen(bs) ==
    LET b == bs[1] IN
    IF b < 128 THEN 1
    ELSE IF b >= 194 /\ b <= 223
         THEN IF Len(bs) >= 2 /\ IsCont(bs[2]) THEN 2 ELSE 0
    ELSE IF b >= 224 /\ b <= 239
         THEN IF /\ Len(bs) >= 3 /\ IsCont(bs[2]) /\ IsCont(bs[3])
                 /\ (b = 224 => bs[2] >= 160)
                 /\ (b = 237 => bs[2] <= 159)
              THEN 3 ELSE 0
    ELSE IF b >= 240 /\ b <= 244
         THEN IF /\ Len(bs) >= 4 /\ IsCont(bs[2]) /\ IsCont(bs[3]) /\ IsCont(bs[4])
                 /\ (b = 240 => bs[2] >= 144)
                 /\ (b = 244 => bs[2] <= 143)
              THEN 4 ELSE 0
    ELSE 0

RECURSIVE Utf8Valid(_)
Utf8Valid(bs) ==
    IF bs = <<>> THEN TRUE
    ELSE LET n == Utf8SeqLen(bs) IN
         n > 0 /\ Utf8Valid(SubSeq(bs, n + 1, Len(bs)))

\* the code point of the well-formed sequence of n bytes that starts bs
Utf8First(bs, n) ==
    IF n = 1 THEN bs[1]
    ELSE IF n = 2 THEN (bs[1] - 192) * 64 + (bs[2] - 128)
    ELSE IF n = 3 THEN (bs[1] - 224) * 4096 + (bs[2] - 128) * 64 + (bs[3] - 128)
    ELSE (bs[1] - 240) * 262144 + (bs[2] - 128) * 4096
         + (bs[3] - 128) * 64 + (bs[4] - 128)

\* the characters of valid UTF-8 bytes (str::chars)
RECURSIVE Utf8Decode(_)
Utf8Decode(bs) ==
    IF bs = <<>> THEN <<>>
    ELSE LET n == Utf8SeqLen(bs) IN
         <<Utf8First(bs, n)>> \o Utf8Decode(SubSeq(bs, n + 1, Len(bs)))

\* char::is_whitespace: the Unicode White_Space property
IsWhitespace(c) ==
    \/ c >= 9 /\ c <= 13
    \/ c \in {32, 133, 160, 5760, 8232, 8233, 8239, 8287, 12288}
    \/ c >= 8192 /\ c <= 8202

\* str::trim on a &str given as code points
RECURSIVE TrimStart(_)
TrimStart(s) ==
    IF s # <<>> /\ IsWhitespace(Head(s)) THEN TrimStart(Tail(s)) ELSE s

RECURSIVE TrimEnd(_)
TrimEnd(s) ==
    IF s # <<>> /\ IsWhitespace(s[Len(s)])
    THEN TrimEnd(SubSeq(s, 1, Len(s) - 1)) ELSE s

StrTrim(s) == TrimEnd(TrimStart(s))

(***************************************************************************)
(* StackString<N>                                                          *)
(***************************************************************************)
\* &self.buf[..self.len]: the bytes as_str() exposes
Content == SubSeq(buf, 1, len)

\* [0u8; N]
ZeroBuf(n) == [i \in 1..n |-> 0]

\* a remaining() that is one byte short
RemainingOffByOne(n, l) == n - l - 1

\* remaining(): N - self.len
Remaining(n, l) == n - l

\* a push_str that reports success whether or not it truncated
PushStrOnAlwaysTrue(b, l, bytes) ==
    LET to_copy == Min(Len(bytes), Len(b) - l) IN
    [buf |-> [i \in 1..Len(b) |->
                IF i > l /\ i <= l + to_copy THEN bytes[i - l] ELSE b[i]],
     len |-> l + to_copy, ret |-> TRUE, panicked |-> FALSE]

\* push_str on a string whose fields are b (buf) and l (len), given the
\* bytes of s: the new fields, the returned bool and whether the slice
\* expression buf[len..len + to_copy] panicked
PushStrOn(b, l, bytes) ==
    LET rem == Remaining(Len(b), l)
        to_copy == Min(Len(bytes), rem)
    IN  IF rem < 0
        THEN [buf |-> b, len |-> l, ret |-> FALSE, panicked |-> TRUE]
        ELSE IF to_copy > 0
        THEN IF l + to_copy > Len(b)
             THEN [buf |-> b, len |-> l, ret |-> FALSE, panicked |-> TRUE]
             ELSE [buf |-> [i \in 1..Len(b) |->
                              IF i > l /\ i <= l + to_copy
                              THEN bytes[i - l] ELSE b[i]],
                   len |-> l + to_copy,
                   ret |-> (to_copy = Len(bytes)),
                   panicked |-> FALSE]
        ELSE [buf |-> b, len |-> l, ret |-> (to_copy = Len(bytes)),
              panicked |-> FALSE]

\* the &str arguments of the model
StackArgs == SeqsUpTo(StackChars, MaxArgLen)

\* s = StackString::new()
New ==
    /\ ~aborted
    /\ buf' = ZeroBuf(cap)
    /\ len' = 0
    /\ lastOp' = "new"
    /\ lastArg' = <<>>
    /\ UNCHANGED <<cap, ret, aborted>>
    /\ UNCHANGED <<serVars, escVars, keyVars, cliVars, libVars>>

\* s = StackString::from_str(arg): new() then push_str(arg)
FromStr ==
    /\ ~aborted
    /\ \E s \in StackArgs :
         LET r == PushStrOn(ZeroBuf(cap), 0, AsBytes(s)) IN
         /\ buf' = r.buf
         /\ len' = r.len
         /\ aborted' = r.panicked
         /\ lastOp' = "from_str"
         /\ lastArg' = AsBytes(s)
    /\ UNCHANGED <<cap, ret>>
    /\ UNCHANGED <<serVars, escVars, keyVars, cliVars, libVars>>

\* s.push_str(arg)
PushStr ==
    /\ ~aborted
    /\ \E s \in StackArgs :
         LET r == PushStrOn(buf, len, AsBytes(s)) IN
         /\ buf' = r.buf
         /\ len' = r.len
         /\ ret' = r.ret
         /\ aborted' = r.panicked
         /\ lastOp' = "push_str"
         /\ lastArg' = AsBytes(s)
    /\ UNCHANGED cap
    /\ UNCHANGED <<serVars, escVars, keyVars, cliVars, libVars>>

\* s.push(c): encode c into a 4-byte scratch, then push_str the encoding
Push ==
    /\ ~aborted
    /\ \E c \in StackChars :
         LET r == PushStrOn(buf, len, Utf8Encode(c)) IN
         /\ buf' = r.buf
         /\ len' = r.len
         /\ ret' = r.ret
         /\ aborted' = r.panicked
         /\ lastOp' = "push"
         /\ lastArg' = Utf8Encode(c)
    /\ UNCHANGED cap
    /\ UNCHANGED <<serVars, escVars, keyVars, cliVars, libVars>>

\* s.clear(): only the length is reset, the bytes stay in buf
Clear ==
    /\ ~aborted
    /\ len' = 0
    /\ lastOp' = "clear"
    /\ lastArg' = <<>>
    /\ UNCHANGED <<cap, buf, ret, aborted>>
    /\ UNCHANGED <<serVars, escVars, keyVars, cliVars, libVars>>

\* s = s.trim() on well-formed content: from_str(self.as_str().trim())
TrimValid ==
    /\ ~aborted
    /\ Utf8Valid(Content)
    /\ LET t == AsBytes(StrTrim(Utf8Decode(Content)))
           r == PushStrOn(ZeroBuf(cap), 0, t)
       IN  /\ buf' = r.buf
           /\ len' = r.len
           /\ aborted' = r.panicked
           /\ lastArg' = t
    /\ lastOp' = "trim"
    /\ UNCHANGED <<cap, ret>>
    /\ UNCHANGED <<serVars, escVars, keyVars, cliVars, libVars>>

\* s = s.trim() on content that is not UTF-8: as_str() hands the bytes to
\* from_utf8_unchecked, whose safety condition is broken, so the behaviour
\* of str::trim is undefined.  The char decoder reads continuation bytes
\* with unwrap_unchecked: a build with the unsafe-precondition checks on
\* aborts, one without them returns some slice of the bytes.
TrimUndefined ==
    /\ ~aborted
    /\ ~Utf8Valid(Content)
    /\ \/ /\ aborted' = TRUE
          /\ lastArg' = <<>>
          /\ UNCHANGED <<buf, len>>
       \/ \E i \in 1..(len + 1) : \E j \in (i - 1)..len :
            LET t == SubSeq(Content, i, j)
                r == PushStrOn(ZeroBuf(cap), 0, t)
            IN  /\ buf' = r.buf
                /\ len' = r.len
                /\ aborted' = r.panicked
                /\ lastArg' = t
    /\ lastOp' = "trim"
    /\ UNCHANGED <<cap, ret>>
    /\ UNCHANGED <<serVars, escVars, keyVars, cliVars, libVars>>

StackNext ==
    \/ New
    \/ FromStr
    \/ PushStr
    \/ Push
    \/ Clear
    \/ TrimValid
    \/ TrimUndefined

(***************************************************************************)
(* Claims about StackString, checked under SpecStack.                      *)
(***************************************************************************)
\* C1: from_str(s) stores min(len(s), N) bytes, which are the first len()
\* bytes of s, and remaining() is N - len().
C1_FromStrIsPrefix ==
    lastOp = "from_str" =>
        /\ ~aborted
        /\ len = Min(Len(lastArg), cap)
        /\ Remaining(cap, len) = cap - len
        /\ Content = Prefix(lastArg, len)

\* C1 witness: a from_str whose argument is longer than the capacity was
\* cut to exactly N bytes, with nothing remaining.
C1_Witness ==
    /\ lastOp = "from_str"
    /\ Len(lastArg) > cap
    /\ len = cap
    /\ Remaining(cap, len) = 0
    /\ Content = Prefix(lastArg, cap)

C3_BoundedAndNeverFails ==
    /\ ~aborted
    /\ len >= 0
    /\ len <= cap
    /\ Remaining(cap, len) = cap - len

\* C4: bytes[0..len] is valid UTF-8 in every reachable state.
C4_ContentIsUtf8 == Utf8Valid(Content)

\* C5: push(c) appends the whole encoding of c and returns true, or leaves
\* the buffer unchanged and returns false.
C5_PushAllOrNothing ==
    [][lastOp' = "push" =>
         \/ ret' /\ len' = len + Len(lastArg')
                 /\ SubSeq(buf', 1, len') = Content \o lastArg'
         \/ ~ret' /\ len' = len /\ buf' = buf]_vars

(***************************************************************************)
(* JSON string escaping (src/src/json.rs:269-350).  Characters are code    *)
(* points: 34 is the quote, 92 the backslash, 117 the letter u.            *)
(***************************************************************************)
\* ESCAPE_TABLE, entry for entry: N None, B Backspace, T Tab, L Newline,
\* F FormFeed, R CarriageReturn, Q Quote, S Backslash, U Unicode
ESCAPE_TABLE ==
    << "U", "U", "U", "U", "U", "U", "U", "U",
       "B", "T", "L", "U", "F", "R", "U", "U",
       "U", "U", "U", "U", "U", "U", "U", "U",
       "U", "U", "U", "U", "U", "U", "U", "U",
       "N", "N", "Q", "N", "N", "N", "N", "N",
       "N", "N", "N", "N", "N", "N", "N", "N",
       "N", "N", "N", "N", "N", "N", "N", "N",
       "N", "N", "N", "N", "N", "N", "N", "N",
       "N", "N", "N", "N", "N", "N", "N", "N",
       "N", "N", "N", "N", "N", "N", "N", "N",
       "N", "N", "N", "N", "N", "N", "N", "N",
       "N", "N", "N", "N", "S", "N", "N", "N",
       "N", "N", "N", "N", "N", "N", "N", "N",
       "N", "N", "N", "N", "N", "N", "N", "N",
       "N", "N", "N", "N", "N", "N", "N", "N",
       "N", "N", "N", "N", "N", "N", "N", "U" >>

\* the lower-case hexadecimal digit of d, as a character
HexDigit(d) == IF d < 10 THEN 48 + d ELSE 87 + d

\* write!(output, "\\u{:04x}", byte): backslash, u and at least four digits
Hex4(b) ==
    <<92, 117, HexDigit((b \div 4096) % 16), HexDigit((b \div 256) % 16),
      HexDigit((b \div 16) % 16), HexDigit(b % 16)>>

\* an escape that lets the backslash through as it is
EscapeCharRawBackslash(c) ==
    IF c >= 128 \/ ESCAPE_TABLE[c + 1] \in {"N", "S"} THEN <<c>>
    ELSE IF c = 34 THEN <<92, 34>> ELSE Hex4(c)

\* one iteration of the loop of escape_string_into: what is pushed for c
EscapeChar(c) ==
    IF c < 128
    THEN LET e == ESCAPE_TABLE[c + 1] IN
         CASE e = "N" -> <<c>>
           [] e = "B" -> <<92, 98>>
           [] e = "T" -> <<92, 116>>
           [] e = "L" -> <<92, 110>>
           [] e = "F" -> <<92, 102>>
           [] e = "R" -> <<92, 114>>
           [] e = "Q" -> <<92, 34>>
           [] e = "S" -> <<92, 92>>
           [] e = "U" -> Hex4(c)
    ELSE <<c>>

\* escape_string_into(output, s): what is appended to output
escape_string(s) == Flatten([i \in 1..Len(s) |-> EscapeChar(s[i])])

(***************************************************************************)
(* JsonWriter (src/src/json.rs:22-267).  A writer is the record of its     *)
(* fields; each method is the function from the writer before the call to  *)
(* the writer after it.                                                    *)
(***************************************************************************)
\* JsonWriter::new(pretty)
JsonNew(p) ==
    [output |-> <<>>, pretty |-> p, indent_level |-> 0, needs_comma |-> FALSE]

\* self.output.push_str(s)
Out(w, s) == [w EXCEPT !.output = @ \o s]

\* the decimal text of an integer: write!(output, "{}", value)
RECURSIVE Digits(_)
Digits(n) ==
    IF n < 10 THEN <<48 + n>> ELSE Digits(n \div 10) \o <<48 + (n % 10)>>

Decimal(n) == IF n < 0 THEN <<45>> \o Digits(0 - n) ELSE Digits(n)

write_indent(w) ==
    IF w.pretty
    THEN Out(w, [i \in 1..(2 * w.indent_level) |-> 32])
    ELSE w

\* a write_newline that does not look at the mode
write_newline_always(w) == Out(w, <<10>>)

write_newline(w) == IF w.pretty THEN Out(w, <<10>>) ELSE w

\* a write_separator that forgets to write the comma
write_separator_none(w) == [w EXCEPT !.needs_comma = FALSE]

write_separator(w) ==
    LET w1 == IF w.needs_comma THEN write_newline(Out(w, <<44>>)) ELSE w
    IN  [w1 EXCEPT !.needs_comma = FALSE]

\* an opening that leaves indent_level as it is
OpenContainerFlat(w, c) ==
    LET w1 == write_newline(Out(write_indent(write_separator(w)), <<c>>))
    IN  [w1 EXCEPT !.needs_comma = FALSE]

\* the body shared by begin_object, begin_array and array_object_begin
OpenContainer(w, c) ==
    LET w1 == write_newline(Out(write_indent(write_separator(w)), <<c>>))
    IN  [w1 EXCEPT !.indent_level = @ + 1, !.needs_comma = FALSE]

\* the body shared by every end_* method
CloseContainer(w, c) ==
    LET w1 == write_newline(w)
        w2 == [w1 EXCEPT !.indent_level = @ - 1]
        w3 == Out(write_indent(w2), <<c>>)
    IN  [w3 EXCEPT !.needs_comma = TRUE]

begin_object(w) == OpenContainer(w, 123)
end_object(w) == CloseContainer(w, 125)
begin_array(w) == OpenContainer(w, 91)
end_array(w) == CloseContainer(w, 93)

key(w, name) ==
    LET w1 == Out(write_indent(write_separator(w)), <<34>>)
        w2 == Out(Out(w1, escape_string(name)), <<34, 58>>)
        w3 == IF w.pretty THEN Out(w2, <<32>>) ELSE w2
    IN  [w3 EXCEPT !.needs_comma = FALSE]

value_string(w, v) ==
    [Out(w, <<34>> \o escape_string(v) \o <<34>>) EXCEPT !.needs_comma = TRUE]

value_i64(w, v) == [Out(w, Decimal(v)) EXCEPT !.needs_comma = TRUE]

value_u64(w, v) == [Out(w, Decimal(v)) EXCEPT !.needs_comma = TRUE]

\* "true" or "false"
value_bool(w, v) ==
    [Out(w, IF v THEN <<116, 114, 117, 101>> ELSE <<102, 97, 108, 115, 101>>)
       EXCEPT !.needs_comma = TRUE]

\* "null"
value_null(w) == [Out(w, <<110, 117, 108, 108>>) EXCEPT !.needs_comma = TRUE]

field_str(w, k, v) == value_string(key(w, k), v)

\* Option<T>: None, and Some(v) holding v
None == <<>>
Some(v) == <<v>>
Opt(S) == {None} \cup {Some(v) : v \in S}

\* a field_str_opt that writes null for an absent value
field_str_opt_null(w, k, v) ==
    IF v # None THEN field_str(w, k, v[1]) ELSE value_null(key(w, k))

field_str_opt(w, k, v) == IF v # None THEN field_str(w, k, v[1]) ELSE w

field_i64(w, k, v) == value_i64(key(w, k), v)

field_u64(w, k, v) == value_u64(key(w, k), v)

field_u64_opt(w, k, v) == IF v # None THEN field_u64(w, k, v[1]) ELSE w

field_bool(w, k, v) == value_bool(key(w, k), v)

\* the body shared by field_object and field_array
FieldContainer(w, k, c) ==
    LET w1 == [key(w, k) EXCEPT !.needs_comma = FALSE]
        w2 == write_newline(Out(w1, <<c>>))
    IN  [w2 EXCEPT !.indent_level = @ + 1]

field_object(w, k) == FieldContainer(w, k, 123)
end_field_object(w) == CloseContainer(w, 125)
field_array(w, k) == FieldContainer(w, k, 91)
end_field_array(w) == CloseContainer(w, 93)

array_string(w, v) ==
    LET w1 == Out(write_indent(write_separator(w)), <<34>>)
        w2 == Out(Out(w1, escape_string(v)), <<34>>)
    IN  [w2 EXCEPT !.needs_comma = TRUE]

array_object_begin(w) == OpenContainer(w, 123)
array_object_end(w) == CloseContainer(w, 125)

(***************************************************************************)
(* TextWriter (src/src/print.rs:81-189).  The writer and the standard      *)
(* output it prints to are one record {first, out}; each method is the     *)
(* function from that record before the call to the record after it.       *)
(***************************************************************************)
\* print(s): the bytes reach standard output at once
print(x, bytes) == [x EXCEPT !.out = @ \o bytes]

\* a sep that prints the space before the first field too
text_sep_always(x) == print([x EXCEPT !.first = FALSE], <<32>>)

\* TextWriter::sep
text_sep(x) ==
    IF x.first THEN [x EXCEPT !.first = FALSE] ELSE print(x, <<32>>)

\* a key that prints the name as it is spelled
text_key_raw(x, name) == print(x, AsBytes(name))

\* TextWriter::key: the first 32 bytes of the name, a..z upper-cased
text_key(x, name) ==
    LET bytes == AsBytes(name)
        n == Min(Len(bytes), 32)
    IN  print(x, [i \in 1..n |->
                    IF bytes[i] >= 97 /\ bytes[i] <= 122
                    THEN bytes[i] - 32 ELSE bytes[i]])

\* print_u64
print_u64(x, n) == print(x, Digits(n))

text_field_u64(x, name, v) ==
    print_u64(print(text_key(text_sep(x), name), <<61>>), v)

text_field_i64(x, name, v) ==
    print(print(text_key(text_sep(x), name), <<61>>), Decimal(v))

text_field_str(x, name, v) ==
    print(print(text_key(text_sep(x), name), <<61>>), AsBytes(v))

text_field_quoted(x, name, v) ==
    print(print(print(text_key(text_sep(x), name), <<61, 34>>), AsBytes(v)),
          <<34>>)

text_field_u64_opt(x, name, v) ==
    IF v # None THEN text_field_u64(x, name, v[1]) ELSE x

text_field_str_opt(x, name, v) ==
    IF v # None THEN text_field_str(x, name, v[1]) ELSE x

text_field_quoted_opt(x, name, v) ==
    IF v # None THEN text_field_quoted(x, name, v[1]) ELSE x

text_field_mhz(x, name, mhz_x100) ==
    LET whole == mhz_x100 \div 100
        frac == mhz_x100 % 100
        x1 == print(print_u64(print(text_key(text_sep(x), name), <<61>>), whole),
                    <<46>>)
        x2 == IF frac < 10 THEN print(x1, <<48>>) ELSE x1
    IN  print_u64(x2, frac)

\* TextWriter::finish: println_empty
text_finish(x) == print(x, <<10>>)

(***************************************************************************)
(* The collector driving one of the two emitters.  It makes properly       *)
(* nested JsonWriter calls (ctx holds the containers it has open, each     *)
(* closed by the end call of the call that opened it; in an object it      *)
(* writes keys and fields, in an array elements), or TextWriter field      *)
(* calls followed by finish.                                               *)
(***************************************************************************)
\* the arguments the collector passes: the key "k", the string a" (an a
\* and a quote), the name "mtu", the values "up" and "a b"
JsonKeys == {<<107>>}
JsonStrings == {<<97, 34>>}
JsonU64s == {42}
JsonI64s == {-7}
TextNames == {<<109, 116, 117>>}
TextStrings == {<<117, 112>>, <<97, 32, 98>>}
TextU64s == {0, 42}
TextI64s == {-7}
TextMhz == {5, 1234}

ObjectOpeners == {"begin_object", "field_object", "array_object_begin"}
ArrayOpeners == {"begin_array", "field_array"}
ScalarCalls ==
    {"value_string", "value_i64", "value_u64", "value_bool", "value_null"}

Top == ctx[Len(ctx)]
Pop == SubSeq(ctx, 1, Len(ctx) - 1)

\* the caller is inside an object, where a key or a field may be written
InObj == ctx # <<>> /\ Top \in ObjectOpeners /\ ~afterKey
\* the caller is inside an array, where an element may be written
InArr == ctx # <<>> /\ Top \in ArrayOpeners
\* nothing has been written yet
AtRoot == ctx = <<>> /\ ~afterKey /\ ~rootDone
\* a value is due: after a key, as an array element, as the document
ValuePos == afterKey \/ InArr \/ AtRoot

CanWrite == fmt = "json" /\ calls < MaxCalls /\ ~rootDone

\* one JsonWriter call: the writer after it and the caller's new position
JsonCall(w, c, ak, name) ==
    /\ jw' = w
    /\ ctx' = c
    /\ afterKey' = ak
    /\ lastCall' = name
    /\ UNCHANGED <<fmt, tw, stdout, tokens, finished>>
    /\ UNCHANGED <<stackVars, escVars, keyVars, cliVars, libVars>>

JBeginObject ==
    /\ CanWrite /\ ValuePos
    /\ JsonCall(begin_object(jw), Append(ctx, "begin_object"), FALSE,
                "begin_object")
    /\ calls' = calls + 1
    /\ UNCHANGED <<rootDone, bareValues>>

JBeginArray ==
    /\ CanWrite /\ ValuePos
    /\ JsonCall(begin_array(jw), Append(ctx, "begin_array"), FALSE,
                "begin_array")
    /\ calls' = calls + 1
    /\ UNCHANGED <<rootDone, bareValues>>

JArrayObjectBegin ==
    /\ CanWrite /\ InArr
    /\ JsonCall(array_object_begin(jw), Append(ctx, "array_object_begin"),
                FALSE, "array_object_begin")
    /\ calls' = calls + 1
    /\ UNCHANGED <<rootDone, bareValues>>

JFieldObject ==
    /\ CanWrite /\ InObj
    /\ \E k \in JsonKeys :
         JsonCall(field_object(jw, k), Append(ctx, "field_object"), FALSE,
                  "field_object")
    /\ calls' = calls + 1
    /\ UNCHANGED <<rootDone, bareValues>>

JFieldArray ==
    /\ CanWrite /\ InObj
    /\ \E k \in JsonKeys :
         JsonCall(field_array(jw, k), Append(ctx, "field_array"), FALSE,
                  "field_array")
    /\ calls' = calls + 1
    /\ UNCHANGED <<rootDone, bareValues>>

\* the end call that matches the innermost open container
JEnd ==
    /\ fmt = "json" /\ ctx # <<>> /\ ~afterKey
    /\ LET w == CASE Top = "begin_object" -> end_object(jw)
                  [] Top = "begin_array" -> end_array(jw)
                  [] Top = "field_object" -> end_field_object(jw)
                  [] Top = "field_array" -> end_field_array(jw)
                  [] Top = "array_object_begin" -> array_object_end(jw)
           name == CASE Top = "begin_object" -> "end_object"
                     [] Top = "begin_array" -> "end_array"
                     [] Top = "field_object" -> "end_field_object"
                     [] Top = "field_array" -> "end_field_array"
                     [] Top = "array_object_begin" -> "array_object_end"
       IN  JsonCall(w, Pop, FALSE, name)
    /\ rootDone' = (Len(ctx) = 1)
    /\ UNCHANGED <<calls, bareValues>>

JKey ==
    /\ CanWrite /\ InObj
    /\ \E k \in JsonKeys : JsonCall(key(jw, k), ctx, TRUE, "key")
    /\ calls' = calls + 1
    /\ UNCHANGED <<rootDone, bareValues>>

\* a value_* call, after a key or directly in an array
JValue ==
    /\ CanWrite /\ (afterKey \/ InArr)
    /\ \/ \E v \in JsonStrings :
            JsonCall(value_string(jw, v), ctx, FALSE, "value_string")
       \/ \E v \in JsonI64s :
            JsonCall(value_i64(jw, v), ctx, FALSE, "value_i64")
       \/ \E v \in JsonU64s :
            JsonCall(value_u64(jw, v), ctx, FALSE, "value_u64")
       \/ \E v \in BOOLEAN :
            JsonCall(value_bool(jw, v), ctx, FALSE, "value_bool")
       \/ JsonCall(value_null(jw), ctx, FALSE, "value_null")
    /\ bareValues' = IF InArr THEN bareValues + 1 ELSE bareValues
    /\ calls' = calls + 1
    /\ UNCHANGED rootDone

JField ==
    /\ CanWrite /\ InObj
    /\ \E k \in JsonKeys :
         \/ \E v \in JsonStrings :
              JsonCall(field_str(jw, k, v), ctx, FALSE, "field_str")
         \/ \E v \in JsonI64s :
              JsonCall(field_i64(jw, k, v), ctx, FALSE, "field_i64")
         \/ \E v \in JsonU64s :
              JsonCall(field_u64(jw, k, v), ctx, FALSE, "field_u64")
         \/ \E v \in BOOLEAN :
              JsonCall(field_bool(jw, k, v), ctx, FALSE, "field_bool")
    /\ calls' = calls + 1
    /\ UNCHANGED <<rootDone, bareValues>>

JFieldOpt ==
    /\ CanWrite /\ InObj
    /\ \E k \in JsonKeys :
         \/ \E v \in Opt(JsonStrings) :
              JsonCall(field_str_opt(jw, k, v), ctx, FALSE,
                       IF v = None THEN "field_str_opt(None)"
                       ELSE "field_str_opt")
         \/ \E v \in Opt(JsonU64s) :
              JsonCall(field_u64_opt(jw, k, v), ctx, FALSE,
                       IF v = None THEN "field_u64_opt(None)"
                       ELSE "field_u64_opt")
    /\ calls' = calls + 1
    /\ UNCHANGED <<rootDone, bareValues>>

JArrayString ==
    /\ CanWrite /\ InArr
    /\ \E v \in JsonStrings :
         JsonCall(array_string(jw, v), ctx, FALSE, "array_string")
    /\ calls' = calls + 1
    /\ UNCHANGED <<rootDone, bareValues>>

\* the writer and standard output as the one record the methods work on
TextState == [first |-> tw.first, out |-> stdout]

\* one TextWriter field call: x is the record after it
TextCall(x, name) ==
    /\ fmt = "text" /\ ~finished /\ calls < MaxCalls
    /\ tw' = [first |-> x.first]
    /\ stdout' = x.out
    /\ tokens' = IF x.out = stdout THEN tokens
                 ELSE Append(tokens,
                             SubSeq(x.out, Len(text_sep(TextState).out) + 1,
                                    Len(x.out)))
    /\ lastCall' = name
    /\ calls' = calls + 1
    /\ UNCHANGED <<fmt, jw, ctx, afterKey, rootDone, bareValues, finished>>
    /\ UNCHANGED <<stackVars, escVars, keyVars, cliVars, libVars>>

TField ==
    \E n \in TextNames :
       \/ \E v \in TextU64s :
            TextCall(text_field_u64(TextState, n, v), "field_u64")
       \/ \E v \in TextI64s :
            TextCall(text_field_i64(TextState, n, v), "field_i64")
       \/ \E v \in TextStrings :
            TextCall(text_field_str(TextState, n, v), "field_str")
       \/ \E v \in TextStrings :
            TextCall(text_field_quoted(TextState, n, v), "field_quoted")
       \/ \E v \in TextMhz :
            TextCall(text_field_mhz(TextState, n, v), "field_mhz")

TFieldOpt ==
    \E n \in TextNames :
       \/ \E v \in Opt(TextU64s) :
            TextCall(text_field_u64_opt(TextState, n, v),
                     IF v = None THEN "field_u64_opt(None)"
                     ELSE "field_u64_opt")
       \/ \E v \in Opt(TextStrings) :
            TextCall(text_field_str_opt(TextState, n, v),
                     IF v = None THEN "field_str_opt(None)"
                     ELSE "field_str_opt")
       \/ \E v \in Opt(TextStrings) :
            TextCall(text_field_quoted_opt(TextState, n, v),
                     IF v = None THEN "field_quoted_opt(None)"
                     ELSE "field_quoted_opt")

TFinish ==
    /\ fmt = "text" /\ ~finished
    /\ stdout' = text_finish(TextState).out
    /\ finished' = TRUE
    /\ lastCall' = "finish"
    /\ UNCHANGED <<fmt, jw, ctx, afterKey, rootDone, bareValues, tw, tokens,
                   calls>>
    /\ UNCHANGED <<stackVars, escVars, keyVars, cliVars, libVars>>

SerNext ==
    \/ JBeginObject
    \/ JBeginArray
    \/ JArrayObjectBegin
    \/ JFieldObject
    \/ JFieldArray
    \/ JEnd
    \/ JKey
    \/ JValue
    \/ JField
    \/ JFieldOpt
    \/ JArrayString
    \/ TField
    \/ TFieldOpt
    \/ TFinish

(***************************************************************************)
(* escape_string_into on its own: the loop over the characters of s.       *)
(***************************************************************************)
\* longest string that is escaped
MaxEscLen == 2

\* the characters strings are drawn from: NUL, the five named C0 escapes,
\* two more C0 controls, DEL, quote, backslash, slash, the letters a n u,
\* the digit 0, and three non-ASCII characters (two, three and four bytes
\* in UTF-8)
EscChars ==
    {0, 8, 9, 10, 11, 12, 13, 31, 127, 34, 92, 47, 97, 110, 117, 48,
     233, 8364, 128512}

\* one iteration of: for c in s.chars()
EscapeStep ==
    /\ escPos < Len(escIn)
    /\ escOut' = escOut \o EscapeChar(escIn[escPos + 1])
    /\ escPos' = escPos + 1
    /\ UNCHANGED escIn
    /\ UNCHANGED <<stackVars, serVars, keyVars, cliVars, libVars>>

EscNext == EscapeStep

(***************************************************************************)
(* The command line (src/src/cli.rs).  A token is a sequence of code       *)
(* points; the string literals of the source are written as code points,   *)
(* with the literal in the comment next to them.                           *)
(***************************************************************************)
\* str::starts_with
starts_with(s, p) == Len(s) >= Len(p) /\ SubSeq(s, 1, Len(p)) = p

\* str::len: the length in bytes of the UTF-8 encoding
ByteLen(s) ==
    Cardinality({i \in DOMAIN s : s[i] < 128})
    + 2 * Cardinality({i \in DOMAIN s : s[i] >= 128 /\ s[i] < 2048})
    + 3 * Cardinality({i \in DOMAIN s : s[i] >= 2048 /\ s[i] < 65536})
    + 4 * Cardinality({i \in DOMAIN s : s[i] >= 65536})

\* char::to_lowercase on the characters of the model: ASCII and Latin-1
\* capitals move by 32, U+0130 (capital I with dot above) becomes the two
\* characters i and U+0307, every other character of the model has no
\* lower-case mapping
LowerChar(c) ==
    IF c >= 65 /\ c <= 90 THEN <<c + 32>>
    ELSE IF c >= 192 /\ c <= 222 /\ c # 215 THEN <<c + 32>>
    ELSE IF c = 304 THEN <<105, 775>>
    ELSE <<c>>

\* a variant that leaves the string as it is
to_lowercase_identity(s) == s

\* the concatenation of ss[lo..hi], by halves so that long strings do not
\* nest deeply
RECURSIVE ConcatRange(_, _, _)
ConcatRange(ss, lo, hi) ==
    IF lo > hi THEN <<>>
    ELSE IF lo = hi THEN ss[lo]
    ELSE LET mid == (lo + hi) \div 2
         IN  ConcatRange(ss, lo, mid) \o ConcatRange(ss, mid + 1, hi)

\* str::to_lowercase
to_lowercase(s) ==
    ConcatRange([i \in DOMAIN s |-> LowerChar(s[i])], 1, Len(s))

\* const MAX_FILTER_LEN
MAX_FILTER_LEN == 1024

\* sanitize_filter_pattern: the pattern to store, and whether the warning
\* was printed.  The test is on the byte length, the cut is a number of
\* characters.
sanitize_filter_pattern(pattern) ==
    IF ByteLen(pattern) > MAX_FILTER_LEN
    THEN [out |-> Prefix(pattern, Min(MAX_FILTER_LEN, Len(pattern))),
          warned |-> TRUE]
    ELSE [out |-> pattern, warned |-> FALSE]

\* GlobalOptions::default()
GlobalOptionsDefault ==
    [json |-> FALSE, pretty |-> FALSE, verbose |-> FALSE, human |-> FALSE,
     help |-> FALSE, filter |-> None, filter_case_insensitive |-> FALSE,
     debug |-> FALSE]

\* The loop of GlobalOptions::parse works on st = [opts, remaining, iter,
\* warnings]; when an arm runs, args_iter.next() has already taken the
\* token arg out of st.iter.

\* opts.<flag> = true
SetFlag(st, flag) == [st EXCEPT !.opts[flag] = TRUE]

\* remaining.push(arg.to_string())
PushRemaining(st, arg) == [st EXCEPT !.remaining = Append(@, arg)]

\* a variant of the "-f" arm that stores an empty pattern when no token
\* follows
FilterArmEmptyDefault(st) ==
    IF st.iter = <<>>
    THEN [st EXCEPT !.opts.filter = Some(<<>>),
                    !.opts.filter_case_insensitive = FALSE]
    ELSE [st EXCEPT !.iter = Tail(@),
                    !.opts.filter =
                        Some(sanitize_filter_pattern(Head(st.iter)).out),
                    !.opts.filter_case_insensitive = FALSE]

\* a variant of the "-f" arm that reads the next token without taking it
FilterArmPeek(st) ==
    IF st.iter = <<>> THEN st
    ELSE [st EXCEPT !.opts.filter =
                        Some(sanitize_filter_pattern(Head(st.iter)).out),
                    !.opts.filter_case_insensitive = FALSE]

\* the arm "-f" | "--filter"
FilterArm(st) ==
    IF st.iter = <<>> THEN st
    ELSE LET pattern == sanitize_filter_pattern(Head(st.iter))
         IN  [st EXCEPT !.iter = Tail(@),
                        !.opts.filter = Some(pattern.out),
                        !.opts.filter_case_insensitive = FALSE,
                        !.warnings = @ + (IF pattern.warned THEN 1 ELSE 0)]

\* the arm "-F" | "--ifilter"
IFilterArm(st) ==
    IF st.iter = <<>> THEN st
    ELSE LET pattern == sanitize_filter_pattern(Head(st.iter))
         IN  [st EXCEPT !.iter = Tail(@),
                        !.opts.filter = Some(to_lowercase(pattern.out)),
                        !.opts.filter_case_insensitive = TRUE,
                        !.warnings = @ + (IF pattern.warned THEN 1 ELSE 0)]

\* for c in chars { match c { ... } }: an unknown letter pushes the whole
\* token and leaves the loop
RECURSIVE ComboChars(_, _, _)
ComboChars(st, arg, chars) ==
    IF chars = <<>> THEN st
    ELSE LET c == Head(chars)
         IN  IF c = 106 THEN ComboChars(SetFlag(st, "json"), arg, Tail(chars))
             ELSE IF c = 112
                  THEN ComboChars(SetFlag(st, "pretty"), arg, Tail(chars))
             ELSE IF c = 118
                  THEN ComboChars(SetFlag(st, "verbose"), arg, Tail(chars))
             ELSE IF c = 104
                  THEN ComboChars(SetFlag(st, "human"), arg, Tail(chars))
             ELSE IF c = 72
                  THEN ComboChars(SetFlag(st, "help"), arg, Tail(chars))
             ELSE IF c = 68
                  THEN ComboChars(SetFlag(st, "debug"), arg, Tail(chars))
             ELSE PushRemaining(st, arg)

\* a variant of the combo arm that passes every cluster through
ComboArmPassThrough(st, arg) == PushRemaining(st, arg)

\* a variant of the combo arm that does not look for 'f' or 'F'
ComboArmSplitAll(st, arg) == ComboChars(st, arg, Tail(arg))

\* the arm for combo flags: chars = s[1..].chars()
ComboArm(st, arg) ==
    LET chars == Tail(arg)
    IN  IF \E i \in DOMAIN chars : chars[i] = 102 \/ chars[i] = 70
        THEN PushRemaining(st, arg)
        ELSE ComboChars(st, arg, chars)

\* the arm of the match that a token selects
Arm(arg) ==
    \* "-j" | "--json"
    IF arg \in {<<45, 106>>, <<45, 45, 106, 115, 111, 110>>} THEN "json"
    \* "-p" | "--pretty"
    ELSE IF arg \in {<<45, 112>>, <<45, 45, 112, 114, 101, 116, 116, 121>>}
         THEN "pretty"
    \* "-v" | "--verbose"
    ELSE IF arg \in {<<45, 118>>,
                     <<45, 45, 118, 101, 114, 98, 111, 115, 101>>}
         THEN "verbose"
    \* "-h" | "--human"
    ELSE IF arg \in {<<45, 104>>, <<45, 45, 104, 117, 109, 97, 110>>}
         THEN "human"
    \* "-H" | "--help"
    ELSE IF arg \in {<<45, 72>>, <<45, 45, 104, 101, 108, 112>>} THEN "help"
    \* "-D" | "--debug"
    ELSE IF arg \in {<<45, 68>>, <<45, 45, 100, 101, 98, 117, 103>>}
         THEN "debug"
    \* "-f" | "--filter"
    ELSE IF arg \in {<<45, 102>>, <<45, 45, 102, 105, 108, 116, 101, 114>>}
         THEN "filter"
    \* "-F" | "--ifilter"
    ELSE IF arg \in {<<45, 70>>,
                     <<45, 45, 105, 102, 105, 108, 116, 101, 114>>}
         THEN "ifilter"
    \* s.starts_with('-') && !s.starts_with("--") && s.len() > 2
    ELSE IF /\ starts_with(arg, <<45>>)
            /\ ~starts_with(arg, <<45, 45>>)
            /\ ByteLen(arg) > 2
         THEN "combo"
    ELSE "other"

\* one iteration of: while let Some(arg) = args_iter.next() { match arg }
MatchArg(st, arg) ==
    LET arm == Arm(arg)
    IN  IF arm \in {"json", "pretty", "verbose", "human", "help", "debug"}
        THEN SetFlag(st, arm)
        ELSE IF arm = "filter" THEN FilterArm(st)
        ELSE IF arm = "ifilter" THEN IFilterArm(st)
        ELSE IF arm = "combo" THEN ComboArm(st, arg)
        ELSE PushRemaining(st, arg)

\* the subcommands main.rs can dispatch to, one per cargo feature: pci, usb,
\* block, net, cpu, mem, mounts, thermal, power, dt, snapshot
SUBCOMMANDS ==
    {<<112, 99, 105>>,
     <<117, 115, 98>>,
     <<98, 108, 111, 99, 107>>,
     <<110, 101, 116>>,
     <<99, 112, 117>>,
     <<109, 101, 109>>,
     <<109, 111, 117, 110, 116, 115>>,
     <<116, 104, 101, 114, 109, 97, 108>>,
     <<112, 111, 119, 101, 114>>,
     <<100, 116>>,
     <<115, 110, 97, 112, 115, 104, 111, 116>>}

\* Invocation::wants_version
wants_version(sub) ==
    \* Some("--version") | Some("-V")
    sub \in {Some(<<45, 45, 118, 101, 114, 115, 105, 111, 110>>),
             Some(<<45, 86>>)}

\* Invocation::wants_help
wants_help(sub, o) ==
    \* Some("help")
    o.help \/ sub = Some(<<104, 101, 108, 112>>)

\* run: the exit code.  Every subcommand's run() returns 0 on each of its
\* paths; a subcommand whose feature is not compiled in has no match arm.
run(sub, o, feats) ==
    IF wants_version(sub) THEN 0
    ELSE IF wants_help(sub, o) THEN 0
    ELSE IF sub = None THEN 1
    ELSE IF sub[1] \in feats THEN 0
    ELSE 1

(***************************************************************************)
(* One run of the program: Invocation::parse_from, the loop of             *)
(* GlobalOptions::parse one token at a time, then run.                     *)
(***************************************************************************)
\* most arguments after the program name
MaxArgs == 3

\* the program name "kv"
Prog == <<107, 118>>
\* "mem" and "net"
Mem == <<109, 101, 109>>
Net == <<110, 101, 116>>
\* "wlan0" and "UP"
Wlan0 == <<119, 108, 97, 110, 48>>
Up == <<85, 80>>
\* "help", "--version" and "--help"
Help == <<104, 101, 108, 112>>
DashDashVersion == <<45, 45, 118, 101, 114, 115, 105, 111, 110>>
DashDashHelp == <<45, 45, 104, 101, 108, 112>>
\* the short flags "-j", "-D", "-H" and "-V"
DashJ == <<45, 106>>
DashBigD == <<45, 68>>
DashBigH == <<45, 72>>
DashBigV == <<45, 86>>
\* the flags with a value: "-f", "--filter", "-F" and "--ifilter"
DashF == <<45, 102>>
DashDashFilter == <<45, 45, 102, 105, 108, 116, 101, 114>>
DashBigF == <<45, 70>>
DashDashIfilter == <<45, 45, 105, 102, 105, 108, 116, 101, 114>>
\* the clusters "-jpv", "-jf" and "-jx"
DashJpv == <<45, 106, 112, 118>>
DashJf == <<45, 106, 102>>
DashJx == <<45, 106, 120>>

\* the tokens argument vectors are made of
Tokens ==
    {Mem, Net, Wlan0, Up, Help, DashJ, DashBigD, DashBigH, DashDashVersion,
     DashF, DashDashFilter, DashBigF, DashDashIfilter, DashJpv, DashJf, DashJx}

\* env::args(): the program name, then up to MaxArgs tokens
Argvs == {<<Prog>> \o a : a \in SeqsUpTo(Tokens, MaxArgs)}

\* the builds: every feature compiled in, or every feature but net
Builds == {SUBCOMMANDS, SUBCOMMANDS \ {Net}}

\* Invocation::parse_from up to the call of GlobalOptions::parse, whose
\* first statements (default options, KV_DEBUG) are included
ParseFrom ==
    /\ pc = "start"
    /\ LET args == IF argv = <<>> THEN <<>> ELSE Tail(argv)
       IN  IF args = <<>>
           THEN /\ subcommand' = None
                /\ opts' = GlobalOptionsDefault
                /\ remaining' = <<>>
                /\ iter' = <<>>
                /\ pc' = "parsed"
           \* "--help", "-H", "--version", "-V"
           ELSE IF args[1] \in {<<45, 45, 104, 101, 108, 112>>, <<45, 72>>,
                                <<45, 45, 118, 101, 114, 115, 105, 111, 110>>,
                                <<45, 86>>}
           THEN /\ subcommand' = Some(args[1])
                /\ opts' = [GlobalOptionsDefault EXCEPT
                               !.help = args[1] \in
                                   {<<45, 45, 104, 101, 108, 112>>, <<45, 72>>}]
                /\ remaining' = Tail(args)
                /\ iter' = <<>>
                /\ pc' = "parsed"
           \* "help"
           ELSE IF args[1] = <<104, 101, 108, 112>>
           THEN /\ subcommand' = Some(<<104, 101, 108, 112>>)
                /\ opts' = [GlobalOptionsDefault EXCEPT !.help = TRUE]
                /\ remaining' = Tail(args)
                /\ iter' = <<>>
                /\ pc' = "parsed"
           ELSE /\ subcommand' = IF starts_with(args[1], <<45>>) THEN None
                                 ELSE Some(args[1])
                /\ iter' = IF starts_with(args[1], <<45>>) THEN args
                           ELSE Tail(args)
                /\ opts' = [GlobalOptionsDefault EXCEPT !.debug = kvDebug]
                /\ remaining' = <<>>
                /\ pc' = "options"
    /\ UNCHANGED <<dbgLog, argv, kvDebug, features, warnings, lastArm, exitCode>>
    /\ UNCHANGED <<stackVars, serVars, escVars, keyVars, libVars>>

\* one iteration of the loop of GlobalOptions::parse
ParseArg ==
    /\ pc = "options"
    /\ iter # <<>>
    /\ LET st == MatchArg([opts |-> opts, remaining |-> remaining,
                           iter |-> Tail(iter), warnings |-> warnings],
                          Head(iter))
       IN  /\ opts' = st.opts
           /\ remaining' = st.remaining
           /\ iter' = st.iter
           /\ warnings' = st.warnings
    /\ lastArm' = Arm(Head(iter))
    /\ UNCHANGED <<dbgLog, argv, kvDebug, features, pc, subcommand, exitCode>>
    /\ UNCHANGED <<stackVars, serVars, escVars, keyVars, libVars>>

\* the loop ends: (opts, remaining) become the Invocation's options and args
ParseReturn ==
    /\ pc = "options"
    /\ iter = <<>>
    /\ pc' = "parsed"
    /\ UNCHANGED <<dbgLog, argv, kvDebug, features, iter, opts, remaining, subcommand,
                   warnings, lastArm, exitCode>>
    /\ UNCHANGED <<stackVars, serVars, escVars, keyVars, libVars>>

\* a run() that prints its start-up messages before it sets the flag
run_debug_late(o, reads) ==
    (IF o.debug THEN <<"load", "load">> ELSE <<>>)
        \o <<"store">>
        \o [i \in 1..reads |-> "load"]

\* the accesses of DEBUG_ENABLED that run() makes, in program order:
\* debug::set_enabled(inv.options.debug), the two dbg_print! of main.rs when
\* the option is set, then one load for each dbg_* macro of io.rs that the
\* subcommand reaches
run_debug(o, reads) ==
    <<"store">>
        \o (IF o.debug THEN <<"load", "load">> ELSE <<>>)
        \o [i \in 1..reads |-> "load"]

\* most dbg_* macros a subcommand reaches
MaxDbgReads == 1

\* run dispatches to the run() of a subcommand
Dispatches(sub, o, feats) ==
    /\ ~wants_version(sub)
    /\ ~wants_help(sub, o)
    /\ sub # None
    /\ sub[1] \in feats

\* run() and std::process::exit
Run ==
    /\ pc = "parsed"
    /\ exitCode' = Some(run(subcommand, opts, features))
    /\ \E reads \in 0..MaxDbgReads :
          /\ reads > 0 => Dispatches(subcommand, opts, features)
          /\ dbgLog' = dbgLog \o run_debug(opts, reads)
    /\ pc' = "exited"
    /\ UNCHANGED <<argv, kvDebug, features, iter, opts, remaining, subcommand,
                   warnings, lastArm>>
    /\ UNCHANGED <<stackVars, serVars, escVars, keyVars, libVars>>

CliNext ==
    \/ ParseFrom
    \/ ParseArg
    \/ ParseReturn
    \/ Run

(***************************************************************************)
(* Runs whose filter pattern is near MAX_FILTER_LEN.                       *)
(***************************************************************************)
\* the characters long patterns are made of: x (one byte), e-acute (two
\* bytes), capital I with dot above (two bytes, two characters in lower
\* case)
PatternChars == {120, 233, 304}

\* the lengths, in characters, of the long patterns
PatternLens == {1, 512, 513, 1023, 1024, 1025}

\* str::repeat
Repeat(c, n) == [i \in 1..n |-> c]

\* "kv -f <pattern>" and "kv -F <pattern>"
LongArgvs ==
    {<<Prog, f, Repeat(c, n)>> :
        f \in {DashF, DashBigF}, c \in PatternChars, n \in PatternLens}

(***************************************************************************)
(* A field name handed to both writers.  The collectors take their names   *)
(* from the constants of src/src/fields.rs; the set below holds, for each  *)
(* module of that file, its first two names, its longest name and a name   *)
(* with a digit where there is one.                                        *)
(***************************************************************************)
FieldNames ==
    {\* net::"name"
     <<110, 97, 109, 101>>,
     \* net::"mac"
     <<109, 97, 99>>,
     \* net::"rx_packets"
     <<114, 120, 95, 112, 97, 99, 107, 101, 116, 115>>,
     \* net::"ipv4"
     <<105, 112, 118, 52>>,
     \* mem::"mem_total_kb"
     <<109, 101, 109, 95, 116, 111, 116, 97, 108, 95, 107, 98>>,
     \* mem::"mem_free_kb"
     <<109, 101, 109, 95, 102, 114, 101, 101, 95, 107, 98>>,
     \* mem::"mem_available_kb"
     <<109, 101, 109, 95, 97, 118, 97, 105, 108, 97, 98, 108, 101, 95, 107, 98>>,
     \* pci::"bdf"
     <<98, 100, 102>>,
     \* pci::"vendor_id"
     <<118, 101, 110, 100, 111, 114, 95, 105, 100>>,
     \* pci::"subsys_vendor"
     <<115, 117, 98, 115, 121, 115, 95, 118, 101, 110, 100, 111, 114>>,
     \* block::"type"
     <<116, 121, 112, 101>>,
     \* block::"size_sectors"
     <<115, 105, 122, 101, 95, 115, 101, 99, 116, 111, 114, 115>>,
     \* cpu::"logical_cpus"
     <<108, 111, 103, 105, 99, 97, 108, 95, 99, 112, 117, 115>>,
     \* cpu::"model_name"
     <<109, 111, 100, 101, 108, 95, 110, 97, 109, 101>>,
     \* cpu::"cores_per_socket"
     <<99, 111, 114, 101, 115, 95, 112, 101, 114, 95, 115, 111, 99, 107, 101, 116>>,
     \* thermal::"sensor"
     <<115, 101, 110, 115, 111, 114>>,
     \* thermal::"label"
     <<108, 97, 98, 101, 108>>,
     \* thermal::"temp_crit_millicelsius"
     <<116, 101, 109, 112, 95, 99, 114, 105, 116, 95, 109, 105, 108, 108, 105, 99, 101, 108, 115, 105, 117, 115>>,
     \* power::"capacity_percent"
     <<99, 97, 112, 97, 99, 105, 116, 121, 95, 112, 101, 114, 99, 101, 110, 116>>,
     \* usb::"num_configurations"
     <<110, 117, 109, 95, 99, 111, 110, 102, 105, 103, 117, 114, 97, 116, 105, 111, 110, 115>>,
     \* dt::"path"
     <<112, 97, 116, 104>>,
     \* dt::"compatible"
     <<99, 111, 109, 112, 97, 116, 105, 98, 108, 101>>,
     \* mounts::"source"
     <<115, 111, 117, 114, 99, 101>>,
     \* mounts::"target"
     <<116, 97, 114, 103, 101, 116>>,
     \* mounts::"dump_freq"
     <<100, 117, 109, 112, 95, 102, 114, 101, 113>>}

\* a writer inside the object the field is written to
KeyWriter(p) == begin_object(JsonNew(p))

\* w.key(name) on the JSON writer
KeyJson ==
    /\ jsonKey = KeyWriter(jsonKey.pretty)
    /\ jsonKey' = key(jsonKey, fieldName)
    /\ UNCHANGED <<fieldName, textKey>>
    /\ UNCHANGED <<stackVars, serVars, escVars, cliVars, libVars>>

\* self.key(name) on the text writer
KeyText ==
    /\ textKey = None
    /\ textKey' = Some(text_key([first |-> TRUE, out |-> <<>>], fieldName).out)
    /\ UNCHANGED <<fieldName, jsonKey>>
    /\ UNCHANGED <<stackVars, serVars, escVars, cliVars, libVars>>

KeyNext ==
    \/ KeyJson
    \/ KeyText

(***************************************************************************)
(* Filter matching (src/src/filter.rs).                                    *)
(***************************************************************************)
\* a contains that looks at the start of s only
contains_at_start(s, p) == starts_with(s, p)

\* str::contains: p occurs in s as a run of consecutive characters
contains(s, p) ==
    \E i \in 0..(Len(s) - Len(p)) : SubSeq(s, i + 1, i + Len(p)) = p

\* matches_any: fields.iter().any(..), the fields lower-cased first when
\* case_insensitive, the pattern taken as it is
matches_any(fs, p, ci) ==
    IF ci
    THEN \E i \in DOMAIN fs : contains(to_lowercase(fs[i]), p)
    ELSE \E i \in DOMAIN fs : contains(fs[i], p)

\* Filterable::matches_filter, the provided method: fs is what
\* filter_fields() returns
matches_filter(fs, p, ci) == matches_any(fs, p, ci)

\* longest string and longest list of fields
MaxFilterLen == 2
MaxFields == 2

\* the characters of the strings: 'a' and 'A'
FilterChars == {97, 65}

\* the DtNode of the test node_matches_filter_case_insensitive: its
\* filter_fields() are the path "/soc/serial@12340000" and the compatible
\* property "arm,pl011"
DtNodeFields ==
    << <<47, 115, 111, 99, 47, 115, 101, 114, 105, 97, 108, 64, 49, 50, 51,
         52, 48, 48, 48, 48>>,
       <<97, 114, 109, 44, 112, 108, 48, 49, 49>> >>

\* the patterns of that test: "serial", "SERIAL", "pl011", "PL011", "gpio"
DtNodePatterns ==
    {<<115, 101, 114, 105, 97, 108>>, <<83, 69, 82, 73, 65, 76>>,
     <<112, 108, 48, 49, 49>>, <<80, 76, 48, 49, 49>>,
     <<103, 112, 105, 111>>}

\* the lists of fields and the patterns matching is called with
FieldLists ==
    SeqsUpTo(SeqsUpTo(FilterChars, MaxFilterLen), MaxFields)
        \cup {DtNodeFields}
Patterns == SeqsUpTo(FilterChars, MaxFilterLen) \cup DtNodePatterns

\* item.matches_filter(pattern, case_insensitive)
MatchesFilter ==
    /\ matched = None
    /\ matched' = Some(matches_filter(filterFields, filterPattern,
                                      caseInsensitive))
    /\ UNCHANGED <<filterFields, filterPattern, caseInsensitive>>
    /\ UNCHANGED <<stackVars, serVars, escVars, keyVars, cliVars>>
    /\ UNCHANGED <<ioVars, dtVars, pairVars>>

FilterNext == MatchesFilter

(***************************************************************************)
(* Invocation::parse_from as a function of the arguments after the program *)
(* name and of the environment: what the steps above compute one token at  *)
(* a time.                                                                 *)
(***************************************************************************)
\* the while let loop of GlobalOptions::parse, run to its end
RECURSIVE ParseLoop(_)
ParseLoop(st) ==
    IF st.iter = <<>> THEN st
    ELSE ParseLoop(MatchArg([st EXCEPT !.iter = Tail(@)], Head(st.iter)))

\* Invocation::parse_from(args) with KV_DEBUG set (env) or not
parse_from(args, env) ==
    IF args = <<>>
    THEN [subcommand |-> None, options |-> GlobalOptionsDefault,
          args |-> <<>>]
    \* "--help", "-H", "--version", "-V"
    ELSE IF args[1] \in {<<45, 45, 104, 101, 108, 112>>, <<45, 72>>,
                         <<45, 45, 118, 101, 114, 115, 105, 111, 110>>,
                         <<45, 86>>}
    THEN [subcommand |-> Some(args[1]),
          options |-> [GlobalOptionsDefault EXCEPT
                          !.help = args[1] \in
                              {<<45, 45, 104, 101, 108, 112>>, <<45, 72>>}],
          args |-> Tail(args)]
    \* "help"
    ELSE IF args[1] = <<104, 101, 108, 112>>
    THEN [subcommand |-> Some(args[1]),
          options |-> [GlobalOptionsDefault EXCEPT !.help = TRUE],
          args |-> Tail(args)]
    ELSE LET dash == starts_with(args[1], <<45>>)
             st == ParseLoop(
                       [opts |-> [GlobalOptionsDefault EXCEPT !.debug = env],
                        remaining |-> <<>>,
                        iter |-> IF dash THEN args ELSE Tail(args),
                        warnings |-> 0])
         IN  [subcommand |-> IF dash THEN None ELSE Some(args[1]),
              options |-> st.opts,
              args |-> st.remaining]

(***************************************************************************)
(* The file readers (src/src/io.rs).  The file system holds, at the path   *)
(* read, nothing, a file that may not be opened, a directory, or a file    *)
(* with its bytes.                                                         *)
(***************************************************************************)
\* fs::read_to_string: Ok(contents) for a readable file whose bytes are
\* valid UTF-8, Err(e) for everything else
fs_read_to_string(f) ==
    IF f.kind = "file" /\ Utf8Valid(f.bytes)
    THEN [ok |-> TRUE, s |-> Utf8Decode(f.bytes)]
    ELSE [ok |-> FALSE,
          e |-> CASE f.kind = "missing" -> "NotFound"
                  [] f.kind = "denied" -> "PermissionDenied"
                  [] f.kind = "dir" -> "IsADirectory"
                  [] OTHER -> "InvalidData"]

\* a read_file_string that hands out the trimmed text even when it is empty
read_file_string_keep_empty(f) ==
    LET r == fs_read_to_string(f) IN
    IF r.ok THEN Some(StrTrim(r.s)) ELSE None

\* read_file_string
read_file_string(f) ==
    LET r == fs_read_to_string(f) IN
    IF r.ok
    THEN LET trimmed == StrTrim(r.s)
         IN  IF trimmed = <<>> THEN None ELSE Some(trimmed)
    ELSE None

\* char::to_digit(radix): the digit c stands for, or -1
to_digit(c, radix) ==
    LET d == IF c >= 48 /\ c <= 57 THEN c - 48
             ELSE IF c >= 97 /\ c <= 122 THEN c - 87
             ELSE IF c >= 65 /\ c <= 90 THEN c - 55
             ELSE -1
    IN  IF d < radix THEN d ELSE -1

\* the number a string of digits stands for
RECURSIVE RadixValue(_, _)
RadixValue(ds, radix) ==
    IF ds = <<>> THEN 0
    ELSE RadixValue(SubSeq(ds, 1, Len(ds) - 1), radix) * radix
             + to_digit(ds[Len(ds)], radix)

\* u8::MAX
U8_MAX == 255

\* u8::from_str_radix(s, radix).ok(): an optional '+', then one or more
\* digits, the value no more than u8::MAX
from_str_radix(s, radix) ==
    LET ds == IF s # <<>> /\ s[1] = 43 THEN Tail(s) ELSE s IN
    IF ds = <<>> THEN None
    ELSE IF \E i \in DOMAIN ds : to_digit(ds[i], radix) = -1 THEN None
    ELSE IF RadixValue(ds, radix) > U8_MAX THEN None
    ELSE Some(RadixValue(ds, radix))

\* read_file_parse::<u8>: read_file_string(path)?.parse().ok()
read_file_parse(f) ==
    LET s == read_file_string(f) IN
    IF s = None THEN None ELSE from_str_radix(s[1], 10)

\* parse_hex::<u8>: strip "0x" or else "0X", then from_str_radix(s, 16)
parse_hex(s) ==
    IF starts_with(s, <<48, 120>>) \/ starts_with(s, <<48, 88>>)
    THEN from_str_radix(SubSeq(s, 3, Len(s)), 16)
    ELSE from_str_radix(s, 16)

\* read_file_hex::<u8>
read_file_hex(f) ==
    LET s == read_file_string(f) IN
    IF s = None THEN None ELSE parse_hex(s[1])

\* longest file, in bytes
MaxFileLen == 3

\* the bytes files are made of: space, newline, '0', '9', 'f', 'x', '-'
\* and 0xFF, which no UTF-8 text holds
FileBytes == {32, 10, 48, 57, 102, 120, 45, 255}

\* what the path may hold
Files ==
    {[kind |-> k, bytes |-> <<>>] : k \in {"missing", "denied", "dir"}}
        \cup {[kind |-> "file", bytes |-> b] :
                 b \in SeqsUpTo(FileBytes, MaxFileLen)}

\* one call of a reader on the path
IoCall(name, r) ==
    /\ ioCall = "none"
    /\ ioCall' = name
    /\ ioRet' = r
    /\ UNCHANGED file
    /\ UNCHANGED <<stackVars, serVars, escVars, keyVars, cliVars>>
    /\ UNCHANGED <<filterVars, dtVars, pairVars>>

ReadFileString == IoCall("read_file_string", read_file_string(file))

ReadFileParse == IoCall("read_file_parse", read_file_parse(file))

ReadFileHex == IoCall("read_file_hex", read_file_hex(file))

IoNext ==
    \/ ReadFileString
    \/ ReadFileParse
    \/ ReadFileHex

(***************************************************************************)
(* The devicetree walk read_dt_recursive (src/src/dt.rs:265-322).  A path  *)
(* is the sequence of the entry names from base_path down; an activation   *)
(* is the record of its relative_path, its depth argument, its position    *)
(* ("entry": at the first statement, "loop": in the for loop over the      *)
(* directory entries, "returned") and the entry the loop looks at next.    *)
(***************************************************************************)
\* const MAX_RECURSION_DEPTH, const MAX_NODE_COUNT
MAX_RECURSION_DEPTH == 64
MAX_NODE_COUNT == 4096

\* the trees: base_path does not exist, or every directory less than
\* depth levels below base_path holds width directories, and, with links,
\* every directory holds first a symlink to base_path and a regular file
ChainDepth == 66
FanWidth == 4100
Trees ==
    {[exists |-> FALSE, depth |-> 0, width |-> 0, links |-> FALSE],
     [exists |-> TRUE, depth |-> ChainDepth, width |-> 1, links |-> FALSE],
     [exists |-> TRUE, depth |-> ChainDepth, width |-> 1, links |-> TRUE],
     [exists |-> TRUE, depth |-> 1, width |-> FanWidth, links |-> FALSE],
     [exists |-> TRUE, depth |-> 3, width |-> 2, links |-> TRUE]}

\* fs::read_dir(full_path): the number of entries of the directory at path
\* (none when it cannot be read), and the kind symlink_metadata reports
\* for its i-th entry; an entry is named by its number
NumEntries(t, path) ==
    IF ~t.exists THEN 0
    ELSE (IF t.links THEN 2 ELSE 0)
             + (IF Len(path) < t.depth THEN t.width ELSE 0)

EntryKind(t, i) ==
    IF t.links /\ i = 1 THEN "symlink"
    ELSE IF t.links /\ i = 2 THEN "file"
    ELSE "dir"

\* a guard that forgets the depth
limit_reached_count_only(depth, n) == n >= MAX_NODE_COUNT

\* depth > MAX_RECURSION_DEPTH || nodes.len() >= MAX_NODE_COUNT
limit_reached(depth, n) ==
    depth > MAX_RECURSION_DEPTH \/ n >= MAX_NODE_COUNT

\* read_single_node(base_path, relative_path): Some(node) when the path is
\* a directory
read_single_node(t, path) == IF t.exists THEN Some(path) ELSE None

\* the innermost activation, and the stack once it has returned (the
\* outermost activation is kept, marked as returned)
TopFrame == frames[Len(frames)]
Returned ==
    IF Len(frames) = 1 THEN <<[TopFrame EXCEPT !.at = "returned"]>>
    ELSE SubSeq(frames, 1, Len(frames) - 1)

\* from the call to the for loop: the guard, nodes.push(node), the second
\* test of the node limit
DtEnter ==
    /\ frames # <<>> /\ TopFrame.at = "entry"
    /\ IF limit_reached(TopFrame.depth, Len(nodes))
       THEN /\ nodes' = nodes
            /\ frames' = Returned
       ELSE LET node == read_single_node(tree, TopFrame.path)
                pushed == IF node # None THEN Append(nodes, node[1])
                          ELSE nodes
            IN  /\ nodes' = pushed
                /\ frames' = IF Len(pushed) >= MAX_NODE_COUNT THEN Returned
                             ELSE [frames EXCEPT ![Len(frames)].at = "loop"]
    /\ UNCHANGED tree
    /\ UNCHANGED <<stackVars, serVars, escVars, keyVars, cliVars>>
    /\ UNCHANGED <<filterVars, ioVars, pairVars>>

\* one iteration of the for loop: a symlink and a regular file are passed
\* over, a directory is walked by a call with depth + 1 (a directory that
\* is not a symlink lies under base_path, so the canonicalize test lets
\* it through)
DtEntry ==
    /\ frames # <<>> /\ TopFrame.at = "loop"
    /\ TopFrame.next <= NumEntries(tree, TopFrame.path)
    /\ LET i == TopFrame.next
           here == [frames EXCEPT ![Len(frames)].next = i + 1]
       IN  frames' = IF EntryKind(tree, i) = "dir"
                     THEN Append(here, [path |-> Append(TopFrame.path, i),
                                        depth |-> TopFrame.depth + 1,
                                        at |-> "entry", next |-> 1])
                     ELSE here
    /\ UNCHANGED <<tree, nodes>>
    /\ UNCHANGED <<stackVars, serVars, escVars, keyVars, cliVars>>
    /\ UNCHANGED <<filterVars, ioVars, pairVars>>

\* the for loop is over: the activation returns
DtReturn ==
    /\ frames # <<>> /\ TopFrame.at = "loop"
    /\ TopFrame.next > NumEntries(tree, TopFrame.path)
    /\ frames' = Returned
    /\ UNCHANGED <<tree, nodes>>
    /\ UNCHANGED <<stackVars, serVars, escVars, keyVars, cliVars>>
    /\ UNCHANGED <<filterVars, ioVars, pairVars>>

DtNext ==
    \/ DtEnter
    \/ DtEntry
    \/ DtReturn

(***************************************************************************)
(* Two JsonWriters, one pretty and one compact, given the same calls with  *)
(* the same arguments, in any order.  An end_* call is made only with a    *)
(* container open: indent_level is a usize and may not go below zero.      *)
(***************************************************************************)
\* most calls made on each writer
MaxPairCalls == 3

\* the arguments: the key "k " and the string made of a space, a quote and
\* a tab, so that string literals hold a space, an escaped quote and the
\* escape of the tab
PairKey == <<107, 32>>
PairString == <<32, 34, 9>>

\* the methods that close a container
EndMethods ==
    {"end_object", "end_array", "end_field_object", "end_field_array",
     "array_object_end"}

\* the methods that take an Option, and those that take a bool
OptMethods == {"field_str_opt", "field_u64_opt"}
BoolMethods == {"value_bool", "field_bool"}

\* the calls: the method, whether its Option is Some, and its bool; the
\* other arguments are the key and the string above, -7 and 42
PairCalls ==
    {[m |-> m, some |-> TRUE, b |-> TRUE] :
        m \in EndMethods \cup OptMethods \cup BoolMethods \cup
              {"begin_object", "begin_array", "array_object_begin", "key",
               "field_object", "field_array", "value_null", "value_string",
               "value_i64", "value_u64", "array_string", "field_str",
               "field_i64", "field_u64"}}
      \cup {[m |-> m, some |-> FALSE, b |-> TRUE] : m \in OptMethods}
      \cup {[m |-> m, some |-> TRUE, b |-> FALSE] : m \in BoolMethods}

\* the writer after the call c
Apply(w, c) ==
    CASE c.m = "begin_object" -> begin_object(w)
      [] c.m = "end_object" -> end_object(w)
      [] c.m = "begin_array" -> begin_array(w)
      [] c.m = "end_array" -> end_array(w)
      [] c.m = "key" -> key(w, PairKey)
      [] c.m = "value_string" -> value_string(w, PairString)
      [] c.m = "value_i64" -> value_i64(w, -7)
      [] c.m = "value_u64" -> value_u64(w, 42)
      [] c.m = "value_bool" -> value_bool(w, c.b)
      [] c.m = "value_null" -> value_null(w)
      [] c.m = "field_str" -> field_str(w, PairKey, PairString)
      [] c.m = "field_str_opt" ->
            field_str_opt(w, PairKey,
                          IF c.some THEN Some(PairString) ELSE None)
      [] c.m = "field_i64" -> field_i64(w, PairKey, -7)
      [] c.m = "field_u64" -> field_u64(w, PairKey, 42)
      [] c.m = "field_u64_opt" ->
            field_u64_opt(w, PairKey, IF c.some THEN Some(42) ELSE None)
      [] c.m = "field_bool" -> field_bool(w, PairKey, c.b)
      [] c.m = "field_object" -> field_object(w, PairKey)
      [] c.m = "end_field_object" -> end_field_object(w)
      [] c.m = "field_array" -> field_array(w, PairKey)
      [] c.m = "end_field_array" -> end_field_array(w)
      [] c.m = "array_string" -> array_string(w, PairString)
      [] c.m = "array_object_begin" -> array_object_begin(w)
      [] c.m = "array_object_end" -> array_object_end(w)

\* the same call on both writers
PairCall ==
    /\ pairCalls < MaxPairCalls
    /\ \E c \in PairCalls :
          /\ c.m \in EndMethods => wCompact.indent_level > 0
          /\ wPretty' = Apply(wPretty, c)
          /\ wCompact' = Apply(wCompact, c)
    /\ pairCalls' = pairCalls + 1
    /\ UNCHANGED <<stackVars, serVars, escVars, keyVars, cliVars>>
    /\ UNCHANGED <<filterVars, ioVars, dtVars>>

PairNext == PairCall

(***************************************************************************)
(* The specifications: one component runs, the others are not used.        *)
(***************************************************************************)
\* a StackString<N> fresh from new(), for each capacity N
StackInit ==
    /\ cap \in 1..MaxCap
    /\ buf = ZeroBuf(cap)
    /\ len = 0
    /\ ret = TRUE
    /\ aborted = FALSE
    /\ lastOp = "new"
    /\ lastArg = <<>>
    \* the serializers and the escaping are not used
    /\ fmt = "json"
    /\ jw = JsonNew(FALSE)
    /\ ctx = <<>>
    /\ afterKey = FALSE
    /\ rootDone = FALSE
    /\ bareValues = 0
    /\ tw = [first |-> TRUE]
    /\ stdout = <<>>
    /\ tokens = <<>>
    /\ finished = FALSE
    /\ calls = 0
    /\ lastCall = "new"
    /\ escIn = <<>>
    /\ escPos = 0
    /\ escOut = <<>>
    /\ fieldName = <<>>
    /\ jsonKey = KeyWriter(FALSE)
    /\ textKey = None
    /\ argv = <<>>
    /\ kvDebug = FALSE
    /\ features = SUBCOMMANDS
    /\ pc = "start"
    /\ iter = <<>>
    /\ opts = GlobalOptionsDefault
    /\ remaining = <<>>
    /\ subcommand = None
    /\ warnings = 0
    /\ lastArm = "none"
    /\ exitCode = None
    /\ dbgLog = <<>>
    /\ filterFields = <<>>
    /\ filterPattern = <<>>
    /\ caseInsensitive = FALSE
    /\ matched = None
    /\ file = [kind |-> "missing", bytes |-> <<>>]
    /\ ioCall = "none"
    /\ ioRet = None
    /\ tree = "empty"
    /\ nodes = <<>>
    /\ frames = <<>>
    /\ wPretty = JsonNew(TRUE)
    /\ wCompact = JsonNew(FALSE)
    /\ pairCalls = 0

\* a collector about to write with a fresh JsonWriter (compact or pretty)
\* or a fresh TextWriter
SerInit ==
    /\ fmt \in {"json", "text"}
    /\ \E p \in BOOLEAN : jw = JsonNew(IF fmt = "json" THEN p ELSE FALSE)
    /\ ctx = <<>>
    /\ afterKey = FALSE
    /\ rootDone = FALSE
    /\ bareValues = 0
    /\ tw = [first |-> TRUE]
    /\ stdout = <<>>
    /\ tokens = <<>>
    /\ finished = FALSE
    /\ calls = 0
    /\ lastCall = "new"
    \* the StackString and the escaping are not used
    /\ cap = 1
    /\ buf = <<0>>
    /\ len = 0
    /\ ret = TRUE
    /\ aborted = FALSE
    /\ lastOp = "new"
    /\ lastArg = <<>>
    /\ escIn = <<>>
    /\ escPos = 0
    /\ escOut = <<>>
    /\ fieldName = <<>>
    /\ jsonKey = KeyWriter(FALSE)
    /\ textKey = None
    /\ argv = <<>>
    /\ kvDebug = FALSE
    /\ features = SUBCOMMANDS
    /\ pc = "start"
    /\ iter = <<>>
    /\ opts = GlobalOptionsDefault
    /\ remaining = <<>>
    /\ subcommand = None
    /\ warnings = 0
    /\ lastArm = "none"
    /\ exitCode = None
    /\ dbgLog = <<>>
    /\ filterFields = <<>>
    /\ filterPattern = <<>>
    /\ caseInsensitive = FALSE
    /\ matched = None
    /\ file = [kind |-> "missing", bytes |-> <<>>]
    /\ ioCall = "none"
    /\ ioRet = None
    /\ tree = "empty"
    /\ nodes = <<>>
    /\ frames = <<>>
    /\ wPretty = JsonNew(TRUE)
    /\ wCompact = JsonNew(FALSE)
    /\ pairCalls = 0

\* escape_string_into about to run on a string s, with an empty output
EscInit ==
    /\ escIn \in SeqsUpTo(EscChars, MaxEscLen)
    /\ escPos = 0
    /\ escOut = <<>>
    \* the StackString and the serializers are not used
    /\ cap = 1
    /\ buf = <<0>>
    /\ len = 0
    /\ ret = TRUE
    /\ aborted = FALSE
    /\ lastOp = "new"
    /\ lastArg = <<>>
    /\ fmt = "json"
    /\ jw = JsonNew(FALSE)
    /\ ctx = <<>>
    /\ afterKey = FALSE
    /\ rootDone = FALSE
    /\ bareValues = 0
    /\ tw = [first |-> TRUE]
    /\ stdout = <<>>
    /\ tokens = <<>>
    /\ finished = FALSE
    /\ calls = 0
    /\ lastCall = "new"
    /\ fieldName = <<>>
    /\ jsonKey = KeyWriter(FALSE)
    /\ textKey = None
    /\ argv = <<>>
    /\ kvDebug = FALSE
    /\ features = SUBCOMMANDS
    /\ pc = "start"
    /\ iter = <<>>
    /\ opts = GlobalOptionsDefault
    /\ remaining = <<>>
    /\ subcommand = None
    /\ warnings = 0
    /\ lastArm = "none"
    /\ exitCode = None
    /\ dbgLog = <<>>
    /\ filterFields = <<>>
    /\ filterPattern = <<>>
    /\ caseInsensitive = FALSE
    /\ matched = None
    /\ file = [kind |-> "missing", bytes |-> <<>>]
    /\ ioCall = "none"
    /\ ioRet = None
    /\ tree = "empty"
    /\ nodes = <<>>
    /\ frames = <<>>
    /\ wPretty = JsonNew(TRUE)
    /\ wCompact = JsonNew(FALSE)
    /\ pairCalls = 0

\* a field name of the table, and two writers that have not written it yet
KeyInit ==
    /\ fieldName \in FieldNames
    /\ \E p \in BOOLEAN : jsonKey = KeyWriter(p)
    /\ textKey = None
    \* nothing else is used
    /\ cap = 1
    /\ buf = <<0>>
    /\ len = 0
    /\ ret = TRUE
    /\ aborted = FALSE
    /\ lastOp = "new"
    /\ lastArg = <<>>
    /\ fmt = "json"
    /\ jw = JsonNew(FALSE)
    /\ ctx = <<>>
    /\ afterKey = FALSE
    /\ rootDone = FALSE
    /\ bareValues = 0
    /\ tw = [first |-> TRUE]
    /\ stdout = <<>>
    /\ tokens = <<>>
    /\ finished = FALSE
    /\ calls = 0
    /\ lastCall = "new"
    /\ escIn = <<>>
    /\ escPos = 0
    /\ escOut = <<>>
    /\ argv = <<>>
    /\ kvDebug = FALSE
    /\ features = SUBCOMMANDS
    /\ pc = "start"
    /\ iter = <<>>
    /\ opts = GlobalOptionsDefault
    /\ remaining = <<>>
    /\ subcommand = None
    /\ warnings = 0
    /\ lastArm = "none"
    /\ exitCode = None
    /\ dbgLog = <<>>
    /\ filterFields = <<>>
    /\ filterPattern = <<>>
    /\ caseInsensitive = FALSE
    /\ matched = None
    /\ file = [kind |-> "missing", bytes |-> <<>>]
    /\ ioCall = "none"
    /\ ioRet = None
    /\ tree = "empty"
    /\ nodes = <<>>
    /\ frames = <<>>
    /\ wPretty = JsonNew(TRUE)
    /\ wCompact = JsonNew(FALSE)
    /\ pairCalls = 0

\* the process starts: an argument vector, an environment, a build
CliInit ==
    /\ argv \in Argvs \cup {<<>>}
    /\ kvDebug \in BOOLEAN
    /\ features \in Builds
    /\ pc = "start"
    /\ iter = <<>>
    /\ opts = GlobalOptionsDefault
    /\ remaining = <<>>
    /\ subcommand = None
    /\ warnings = 0
    /\ lastArm = "none"
    /\ exitCode = None
    /\ dbgLog = <<>>
    \* nothing else is used
    /\ cap = 1
    /\ buf = <<0>>
    /\ len = 0
    /\ ret = TRUE
    /\ aborted = FALSE
    /\ lastOp = "new"
    /\ lastArg = <<>>
    /\ fmt = "json"
    /\ jw = JsonNew(FALSE)
    /\ ctx = <<>>
    /\ afterKey = FALSE
    /\ rootDone = FALSE
    /\ bareValues = 0
    /\ tw = [first |-> TRUE]
    /\ stdout = <<>>
    /\ tokens = <<>>
    /\ finished = FALSE
    /\ calls = 0
    /\ lastCall = "new"
    /\ escIn = <<>>
    /\ escPos = 0
    /\ escOut = <<>>
    /\ fieldName = <<>>
    /\ jsonKey = KeyWriter(FALSE)
    /\ textKey = None
    /\ filterFields = <<>>
    /\ filterPattern = <<>>
    /\ caseInsensitive = FALSE
    /\ matched = None
    /\ file = [kind |-> "missing", bytes |-> <<>>]
    /\ ioCall = "none"
    /\ ioRet = None
    /\ tree = "empty"
    /\ nodes = <<>>
    /\ frames = <<>>
    /\ wPretty = JsonNew(TRUE)
    /\ wCompact = JsonNew(FALSE)
    /\ pairCalls = 0

\* the process starts with a long filter pattern
CliLongInit ==
    /\ argv \in LongArgvs
    /\ kvDebug \in BOOLEAN
    /\ features \in Builds
    /\ pc = "start"
    /\ iter = <<>>
    /\ opts = GlobalOptionsDefault
    /\ remaining = <<>>
    /\ subcommand = None
    /\ warnings = 0
    /\ lastArm = "none"
    /\ exitCode = None
    /\ dbgLog = <<>>
    \* nothing else is used
    /\ cap = 1
    /\ buf = <<0>>
    /\ len = 0
    /\ ret = TRUE
    /\ aborted = FALSE
    /\ lastOp = "new"
    /\ lastArg = <<>>
    /\ fmt = "json"
    /\ jw = JsonNew(FALSE)
    /\ ctx = <<>>
    /\ afterKey = FALSE
    /\ rootDone = FALSE
    /\ bareValues = 0
    /\ tw = [first |-> TRUE]
    /\ stdout = <<>>
    /\ tokens = <<>>
    /\ finished = FALSE
    /\ calls = 0
    /\ lastCall = "new"
    /\ escIn = <<>>
    /\ escPos = 0
    /\ escOut = <<>>
    /\ fieldName = <<>>
    /\ jsonKey = KeyWriter(FALSE)
    /\ textKey = None
    /\ filterFields = <<>>
    /\ filterPattern = <<>>
    /\ caseInsensitive = FALSE
    /\ matched = None
    /\ file = [kind |-> "missing", bytes |-> <<>>]
    /\ ioCall = "none"
    /\ ioRet = None
    /\ tree = "empty"
    /\ nodes = <<>>
    /\ frames = <<>>
    /\ wPretty = JsonNew(TRUE)
    /\ wCompact = JsonNew(FALSE)
    /\ pairCalls = 0

\* an item with its filter fields, a pattern and a mode, before the call
FilterInit ==
    /\ filterFields \in FieldLists
    /\ filterPattern \in Patterns
    /\ caseInsensitive \in BOOLEAN
    /\ matched = None
    \* nothing else is used
    /\ cap = 1
    /\ buf = <<0>>
    /\ len = 0
    /\ ret = TRUE
    /\ aborted = FALSE
    /\ lastOp = "new"
    /\ lastArg = <<>>
    /\ fmt = "json"
    /\ jw = JsonNew(FALSE)
    /\ ctx = <<>>
    /\ afterKey = FALSE
    /\ rootDone = FALSE
    /\ bareValues = 0
    /\ tw = [first |-> TRUE]
    /\ stdout = <<>>
    /\ tokens = <<>>
    /\ finished = FALSE
    /\ calls = 0
    /\ lastCall = "new"
    /\ escIn = <<>>
    /\ escPos = 0
    /\ escOut = <<>>
    /\ fieldName = <<>>
    /\ jsonKey = KeyWriter(FALSE)
    /\ textKey = None
    /\ argv = <<>>
    /\ kvDebug = FALSE
    /\ features = SUBCOMMANDS
    /\ pc = "start"
    /\ iter = <<>>
    /\ opts = GlobalOptionsDefault
    /\ remaining = <<>>
    /\ subcommand = None
    /\ warnings = 0
    /\ lastArm = "none"
    /\ exitCode = None
    /\ dbgLog = <<>>
    /\ file = [kind |-> "missing", bytes |-> <<>>]
    /\ ioCall = "none"
    /\ ioRet = None
    /\ tree = "empty"
    /\ nodes = <<>>
    /\ frames = <<>>
    /\ wPretty = JsonNew(TRUE)
    /\ wCompact = JsonNew(FALSE)
    /\ pairCalls = 0

\* a path in sysfs or procfs, before it is read
IoInit ==
    /\ file \in Files
    /\ ioCall = "none"
    /\ ioRet = None
    \* nothing else is used
    /\ cap = 1
    /\ buf = <<0>>
    /\ len = 0
    /\ ret = TRUE
    /\ aborted = FALSE
    /\ lastOp = "new"
    /\ lastArg = <<>>
    /\ fmt = "json"
    /\ jw = JsonNew(FALSE)
    /\ ctx = <<>>
    /\ afterKey = FALSE
    /\ rootDone = FALSE
    /\ bareValues = 0
    /\ tw = [first |-> TRUE]
    /\ stdout = <<>>
    /\ tokens = <<>>
    /\ finished = FALSE
    /\ calls = 0
    /\ lastCall = "new"
    /\ escIn = <<>>
    /\ escPos = 0
    /\ escOut = <<>>
    /\ fieldName = <<>>
    /\ jsonKey = KeyWriter(FALSE)
    /\ textKey = None
    /\ argv = <<>>
    /\ kvDebug = FALSE
    /\ features = SUBCOMMANDS
    /\ pc = "start"
    /\ iter = <<>>
    /\ opts = GlobalOptionsDefault
    /\ remaining = <<>>
    /\ subcommand = None
    /\ warnings = 0
    /\ lastArm = "none"
    /\ exitCode = None
    /\ dbgLog = <<>>
    /\ filterFields = <<>>
    /\ filterPattern = <<>>
    /\ caseInsensitive = FALSE
    /\ matched = None
    /\ tree = "empty"
    /\ nodes = <<>>
    /\ frames = <<>>
    /\ wPretty = JsonNew(TRUE)
    /\ wCompact = JsonNew(FALSE)
    /\ pairCalls = 0

\* read_dt_recursive(base, "/", &mut nodes, depth) is called: with depth 0
\* as the subcommand does, or with a depth near or over the limit
DtInit ==
    /\ tree \in Trees
    /\ nodes = <<>>
    /\ \E d \in {0, MAX_RECURSION_DEPTH - 2, MAX_RECURSION_DEPTH + 1} :
          frames = <<[path |-> <<>>, depth |-> d, at |-> "entry", next |-> 1]>>
    \* nothing else is used
    /\ cap = 1
    /\ buf = <<0>>
    /\ len = 0
    /\ ret = TRUE
    /\ aborted = FALSE
    /\ lastOp = "new"
    /\ lastArg = <<>>
    /\ fmt = "json"
    /\ jw = JsonNew(FALSE)
    /\ ctx = <<>>
    /\ afterKey = FALSE
    /\ rootDone = FALSE
    /\ bareValues = 0
    /\ tw = [first |-> TRUE]
    /\ stdout = <<>>
    /\ tokens = <<>>
    /\ finished = FALSE
    /\ calls = 0
    /\ lastCall = "new"
    /\ escIn = <<>>
    /\ escPos = 0
    /\ escOut = <<>>
    /\ fieldName = <<>>
    /\ jsonKey = KeyWriter(FALSE)
    /\ textKey = None
    /\ argv = <<>>
    /\ kvDebug = FALSE
    /\ features = SUBCOMMANDS
    /\ pc = "start"
    /\ iter = <<>>
    /\ opts = GlobalOptionsDefault
    /\ remaining = <<>>
    /\ subcommand = None
    /\ warnings = 0
    /\ lastArm = "none"
    /\ exitCode = None
    /\ dbgLog = <<>>
    /\ filterFields = <<>>
    /\ filterPattern = <<>>
    /\ caseInsensitive = FALSE
    /\ matched = None
    /\ file = [kind |-> "missing", bytes |-> <<>>]
    /\ ioCall = "none"
    /\ ioRet = None
    /\ wPretty = JsonNew(TRUE)
    /\ wCompact = JsonNew(FALSE)
    /\ pairCalls = 0

\* JsonWriter::new(true) and JsonWriter::new(false)
PairInit ==
    /\ wPretty = JsonNew(TRUE)
    /\ wCompact = JsonNew(FALSE)
    /\ pairCalls = 0
    \* nothing else is used
    /\ cap = 1
    /\ buf = <<0>>
    /\ len = 0
    /\ ret = TRUE
    /\ aborted = FALSE
    /\ lastOp = "new"
    /\ lastArg = <<>>
    /\ fmt = "json"
    /\ jw = JsonNew(FALSE)
    /\ ctx = <<>>
    /\ afterKey = FALSE
    /\ rootDone = FALSE
    /\ bareValues = 0
    /\ tw = [first |-> TRUE]
    /\ stdout = <<>>
    /\ tokens = <<>>
    /\ finished = FALSE
    /\ calls = 0
    /\ lastCall = "new"
    /\ escIn = <<>>
    /\ escPos = 0
    /\ escOut = <<>>
    /\ fieldName = <<>>
    /\ jsonKey = KeyWriter(FALSE)
    /\ textKey = None
    /\ argv = <<>>
    /\ kvDebug = FALSE
    /\ features = SUBCOMMANDS
    /\ pc = "start"
    /\ iter = <<>>
    /\ opts = GlobalOptionsDefault
    /\ remaining = <<>>
    /\ subcommand = None
    /\ warnings = 0
    /\ lastArm = "none"
    /\ exitCode = None
    /\ dbgLog = <<>>
    /\ filterFields = <<>>
    /\ filterPattern = <<>>
    /\ caseInsensitive = FALSE
    /\ matched = None
    /\ file = [kind |-> "missing", bytes |-> <<>>]
    /\ ioCall = "none"
    /\ ioRet = None
    /\ tree = "empty"
    /\ nodes = <<>>
    /\ frames = <<>>

SpecStack == StackInit /\ [][StackNext]_vars

SpecSer == SerInit /\ [][SerNext]_vars

SpecEscape == EscInit /\ [][EscNext]_vars

SpecKey == KeyInit /\ [][KeyNext]_vars

SpecCli == CliInit /\ [][CliNext]_vars

SpecCliLong == CliLongInit /\ [][CliNext]_vars

SpecFilter == FilterInit /\ [][FilterNext]_vars

SpecIo == IoInit /\ [][IoNext]_vars

\* the walk keeps running while it has a step to take
SpecDt == DtInit /\ [][DtNext]_vars /\ WF_vars(DtNext)

SpecPair == PairInit /\ [][PairNext]_vars

(***************************************************************************)
(* The JSON grammar (RFC 8259), to judge what the writer produced.         *)
(***************************************************************************)
JsonWhitespace == {32, 9, 10, 13}
IsDigit(c) == c >= 48 /\ c <= 57
IsHexDigit(c) == IsDigit(c) \/ (c >= 97 /\ c <= 102) \/ (c >= 65 /\ c <= 70)

\* o[i] is inside a string literal: the index after its closing quote, or
\* 0 when the literal is malformed or not closed
RECURSIVE StringEnd(_, _)
StringEnd(o, i) ==
    IF i > Len(o) THEN 0
    ELSE IF o[i] = 34 THEN i + 1
    ELSE IF o[i] = 92
         THEN IF i + 1 > Len(o) THEN 0
              ELSE IF o[i + 1] \in {34, 92, 47, 98, 102, 110, 114, 116}
                   THEN StringEnd(o, i + 2)
              ELSE IF /\ o[i + 1] = 117
                      /\ i + 5 <= Len(o)
                      /\ \A k \in 2..5 : IsHexDigit(o[i + k])
                   THEN StringEnd(o, i + 6)
              ELSE 0
    ELSE IF o[i] < 32 THEN 0
    ELSE StringEnd(o, i + 1)

RECURSIVE DigitsEnd(_, _)
DigitsEnd(o, i) ==
    IF i <= Len(o) /\ IsDigit(o[i]) THEN DigitsEnd(o, i + 1) ELSE i

\* a number (an integer: the writer has no other) starts at o[i]: the
\* index after it, or 0 when it is malformed
NumberEnd(o, i) ==
    LET j == IF o[i] = 45 THEN i + 1 ELSE i IN
    IF j > Len(o) \/ ~IsDigit(o[j]) THEN 0
    ELSE IF o[j] = 48
         THEN IF j + 1 <= Len(o) /\ IsDigit(o[j + 1]) THEN 0 ELSE j + 1
    ELSE DigitsEnd(o, j)

StartsWith(o, i, w) ==
    i + Len(w) - 1 <= Len(o) /\ SubSeq(o, i, i + Len(w) - 1) = w

\* the index after the scalar value that starts at o[i], or 0
ScalarEnd(o, i) ==
    IF o[i] = 34 THEN StringEnd(o, i + 1)
    ELSE IF o[i] = 45 \/ IsDigit(o[i]) THEN NumberEnd(o, i)
    ELSE IF StartsWith(o, i, <<116, 114, 117, 101>>) THEN i + 4
    ELSE IF StartsWith(o, i, <<102, 97, 108, 115, 101>>) THEN i + 5
    ELSE IF StartsWith(o, i, <<110, 117, 108, 108>>) THEN i + 4
    ELSE 0

\* what may follow a complete value, by the containers still open
AfterValue(stack) == IF stack = <<>> THEN "done" ELSE "afterValue"

\* the parser's run from o[i] on, in state st with the open containers in
\* stack: TRUE when o is exactly one JSON value
RECURSIVE JsonParse(_, _, _, _)
JsonParse(o, i, st, stack) ==
    IF i > Len(o) THEN st = "done"
    ELSE LET c == o[i]
             inner == SubSeq(stack, 1, Len(stack) - 1)
         IN
         IF c \in JsonWhitespace THEN JsonParse(o, i + 1, st, stack)
         ELSE IF st \in {"value", "valueOrEnd"}
         THEN IF c = 93
              THEN st = "valueOrEnd"
                   /\ JsonParse(o, i + 1, AfterValue(inner), inner)
              ELSE IF c = 123
              THEN JsonParse(o, i + 1, "keyOrEnd", Append(stack, "obj"))
              ELSE IF c = 91
              THEN JsonParse(o, i + 1, "valueOrEnd", Append(stack, "arr"))
              ELSE LET e == ScalarEnd(o, i) IN
                   e > 0 /\ JsonParse(o, e, AfterValue(stack), stack)
         ELSE IF st \in {"key", "keyOrEnd"}
         THEN IF c = 125
              THEN st = "keyOrEnd"
                   /\ JsonParse(o, i + 1, AfterValue(inner), inner)
              ELSE IF c = 34
              THEN LET e == StringEnd(o, i + 1) IN
                   e > 0 /\ JsonParse(o, e, "colon", stack)
              ELSE FALSE
         ELSE IF st = "colon"
         THEN c = 58 /\ JsonParse(o, i + 1, "value", stack)
         ELSE IF st = "afterValue"
         THEN IF c = 44
              THEN JsonParse(o, i + 1,
                             IF stack[Len(stack)] = "obj" THEN "key"
                             ELSE "value", stack)
              ELSE IF c = 125
              THEN stack[Len(stack)] = "obj"
                   /\ JsonParse(o, i + 1, AfterValue(inner), inner)
              ELSE IF c = 93
              THEN stack[Len(stack)] = "arr"
                   /\ JsonParse(o, i + 1, AfterValue(inner), inner)
              ELSE FALSE
         ELSE FALSE

ValidJson(o) == JsonParse(o, 1, "value", <<>>)

\* o without its whitespace (the writer puts none inside a string literal
\* of the arguments used here)
Squeeze(o) == SelectSeq(o, LAMBDA c : c \notin JsonWhitespace)

\* no comma directly after an opening delimiter or before a closing one
NoStrayComma(o) ==
    LET q == Squeeze(o) IN
    \A i \in 1..(Len(q) - 1) :
        /\ ~(q[i] \in {123, 91} /\ q[i + 1] = 44)
        /\ ~(q[i] = 44 /\ q[i + 1] \in {125, 93})

Count(o, c) == Cardinality({i \in 1..Len(o) : o[i] = c})

(***************************************************************************)
(* Claims about the serializers, checked under SpecSer.                    *)
(***************************************************************************)
\* C6: a properly nested sequence of begin/end object and array calls, in
\* all their variants, with keys and fields inside objects, in compact or
\* pretty mode, produces valid JSON once the outermost container is
\* closed: the delimiters balance and match, and no comma is stray or
\* missing.  (Scalar value_* calls made directly in an array are C7's.)
C6_NestedCallsGiveValidJson ==
    (fmt = "json" /\ bareValues = 0) =>
        /\ NoStrayComma(jw.output)
        /\ Count(jw.output, 123) - Count(jw.output, 125)
             = Cardinality({i \in 1..Len(ctx) : ctx[i] \in ObjectOpeners})
        /\ Count(jw.output, 91) - Count(jw.output, 93)
             = Cardinality({i \in 1..Len(ctx) : ctx[i] \in ArrayOpeners})
        /\ rootDone => ValidJson(jw.output)

\* C6 witness: a pretty-printed document is complete that holds a nested
\* container and two siblings separated by a comma.
C6_Witness ==
    /\ fmt = "json" /\ jw.pretty /\ rootDone /\ bareValues = 0
    /\ calls = MaxCalls
    /\ Count(jw.output, 44) >= 1
    /\ Count(jw.output, 123) + Count(jw.output, 91) >= 2
    /\ ValidJson(jw.output)

\* C7: a scalar value_* call that directly follows another one in the same
\* array is separated from it by exactly one comma.
C7_ScalarSiblingsSeparated ==
    [][(fmt = "json" /\ InArr /\ lastCall \in ScalarCalls
          /\ lastCall' \in ScalarCalls) =>
         /\ Len(jw'.output) > Len(jw.output)
         /\ jw'.output[Len(jw.output) + 1] = 44
         /\ Count(jw'.output, 44) = Count(jw.output, 44) + 1]_vars

\* C8: an optional field writer called with an absent value writes nothing
\* and leaves the writer as it was.
C8_AbsentFieldWritesNothing ==
    [][(lastCall' \in {"field_str_opt(None)", "field_u64_opt(None)",
                      "field_quoted_opt(None)"}) =>
         /\ jw' = jw
         /\ tw' = tw
         /\ stdout' = stdout]_vars

\* C8 witness: an absent optional field was passed to the JSON writer
\* while a separator was pending in an object, and the pending separator
\* and the output are those of the call before.
C8_Witness ==
    /\ fmt = "json"
    /\ lastCall = "field_str_opt(None)"
    /\ jw.needs_comma
    /\ jw.indent_level = 1
    /\ jw.output[Len(jw.output)] # 44

\* the tokens joined by single spaces
RECURSIVE JoinSpaces(_)
JoinSpaces(ts) ==
    IF ts = <<>> THEN <<>>
    ELSE IF Len(ts) = 1 THEN ts[1]
    ELSE ts[1] \o <<32>> \o JoinSpaces(Tail(ts))

\* C10: the line written by TextWriter field calls and finish() is the
\* KEY=VALUE tokens in call order, one space between neighbours, no space
\* before the first or after the last, and exactly one newline at the end.
C10_LineIsTokensJoined ==
    fmt = "text" =>
        /\ stdout = JoinSpaces(tokens) \o (IF finished THEN <<10>> ELSE <<>>)
        /\ \A i \in 1..Len(tokens) :
              /\ Len(tokens[i]) >= 3
              /\ tokens[i][1] # 32
              /\ tokens[i][Len(tokens[i])] # 32
              /\ \E j \in 2..(Len(tokens[i]) - 1) : tokens[i][j] = 61
        /\ Count(stdout, 10) = (IF finished THEN 1 ELSE 0)

\* C10 witness: a finished line of as many tokens as the bound allows.
C10_Witness ==
    /\ fmt = "text"
    /\ finished
    /\ Len(tokens) = MaxCalls
    /\ stdout[Len(stdout)] = 10
    /\ Count(stdout, 32) >= MaxCalls - 1

(***************************************************************************)
(* Claims about escape_string_into, checked under SpecEscape.              *)
(***************************************************************************)
HexValue(c) == IF IsDigit(c) THEN c - 48 ELSE IF c >= 97 THEN c - 87 ELSE c - 55

\* the string a JSON parser reads from the body o of a string literal;
\* <<-1>> marks a body that is no well-formed literal
RECURSIVE Unescape(_)
Unescape(o) ==
    IF o = <<>> THEN <<>>
    ELSE IF o[1] # 92 THEN <<o[1]>> \o Unescape(Tail(o))
    ELSE IF Len(o) < 2 THEN <<-1>>
    ELSE LET e == o[2]
             rest == SubSeq(o, 3, Len(o))
         IN  IF e \in {34, 92, 47} THEN <<e>> \o Unescape(rest)
             ELSE IF e = 98 THEN <<8>> \o Unescape(rest)
             ELSE IF e = 102 THEN <<12>> \o Unescape(rest)
             ELSE IF e = 110 THEN <<10>> \o Unescape(rest)
             ELSE IF e = 114 THEN <<13>> \o Unescape(rest)
             ELSE IF e = 116 THEN <<9>> \o Unescape(rest)
             ELSE IF e = 117 /\ Len(o) >= 6
                     /\ \A k \in 3..6 : IsHexDigit(o[k])
             THEN <<HexValue(o[3]) * 4096 + HexValue(o[4]) * 256
                    + HexValue(o[5]) * 16 + HexValue(o[6])>>
                  \o Unescape(SubSeq(o, 7, Len(o)))
             ELSE <<-1>>

NonAscii(s) == SelectSeq(s, LAMBDA c : c >= 128)

AsciiUpper(s) ==
    [i \in DOMAIN s |-> IF s[i] >= 97 /\ s[i] <= 122 THEN s[i] - 32 ELSE s[i]]

\* the characters between the first and the last double quote of o
QuotedKey(o) ==
    LET qs == {i \in DOMAIN o : o[i] = 34}
        first == CHOOSE i \in qs : \A j \in qs : i <= j
        last == CHOOSE i \in qs : \A j \in qs : j <= i
    IN  SubSeq(o, first + 1, last - 1)

\* key(name) has been called on the JSON writer
JsonKeyWritten == jsonKey # KeyWriter(jsonKey.pretty)

\* C11: once a field name of the table has been handed to both writers, the
\* key TextWriter printed is the ASCII upper-casing of the key JsonWriter
\* wrote between its quotes, character for character and of the same length,
\* and the JSON key is the name itself.
C11_TextKeyIsUpperOfJsonKey ==
    (JsonKeyWritten /\ textKey # None) =>
        LET jk == QuotedKey(jsonKey.output)
            tk == textKey[1]
        IN  /\ jk = fieldName
            /\ Len(tk) = Len(jk)
            /\ tk = AsBytes(AsciiUpper(jk))
            /\ \A i \in DOMAIN tk :
                  tk[i] = jk[i] \/ (jk[i] >= 97 /\ jk[i] <= 122
                                    /\ tk[i] = jk[i] - 32)

\* C11 witness: "temp_crit_millicelsius", the longest name of the table, has
\* been written by the pretty JSON writer and printed by the text writer as
\* TEMP_CRIT_MILLICELSIUS
C11_Witness ==
    /\ JsonKeyWritten
    /\ jsonKey.pretty
    /\ Len(fieldName) = 22
    /\ textKey = Some(<<84, 69, 77, 80, 95, 67, 82, 73, 84, 95, 77, 73, 76,
                        76, 73, 67, 69, 76, 83, 73, 85, 83>>)

(***************************************************************************)
(* Claims about the values of text output, checked under SpecSer.          *)
(***************************************************************************)
\* the value of a KEY=VALUE token: what follows the first '='
ValueOf(t) ==
    LET eqs == {i \in DOMAIN t : t[i] = 61}
        first == CHOOSE i \in eqs : \A j \in eqs : i <= j
    IN  SubSeq(t, first + 1, Len(t))

\* C12: in text output every value that contains a space or a comma stands
\* between double quotes, whichever field writer printed it.
C12_SpacedValuesQuoted ==
    \A i \in DOMAIN tokens :
        LET v == ValueOf(tokens[i])
        IN  (\E j \in DOMAIN v : v[j] = 32 \/ v[j] = 44) =>
                Len(v) >= 2 /\ v[1] = 34 /\ v[Len(v)] = 34

(***************************************************************************)
(* Claims about the command line, checked under SpecCli.  A step that      *)
(* starts with pc = "options" and a token left in iter is one iteration of *)
(* the loop of GlobalOptions::parse on the token Head(iter).               *)
(***************************************************************************)
FlagNames == {"json", "pretty", "verbose", "human", "help", "debug"}

\* the flag a short letter names: j p v h H D
FlagOfLetter(c) ==
    IF c = 106 THEN "json" ELSE IF c = 112 THEN "pretty"
    ELSE IF c = 118 THEN "verbose" ELSE IF c = 104 THEN "human"
    ELSE IF c = 72 THEN "help" ELSE IF c = 68 THEN "debug" ELSE "none"

\* a single dash followed by more than one letter
IsShortCluster(t) == Len(t) >= 3 /\ t[1] = 45 /\ t[2] # 45

\* a short cluster made only of the letters j, p, v, h, H, D
IsFlagCluster(t) ==
    IsShortCluster(t) /\ \A i \in 2..Len(t) : FlagOfLetter(t[i]) # "none"

\* the loop is about to read a token
ReadsToken == pc = "options" /\ iter # <<>>

\* the parse has returned
Parsed == pc \in {"parsed", "exited"}

\* the loop's state, as the arms take it, after the token was read
AfterRead ==
    [opts |-> opts, remaining |-> remaining, iter |-> Tail(iter),
     warnings |-> warnings]

\* the loop run on each letter of a cluster given as a short flag of its own
RECURSIVE SeparateFlags(_, _)
SeparateFlags(st, letters) ==
    IF letters = <<>> THEN st
    ELSE SeparateFlags(MatchArg(st, <<45, Head(letters)>>), Tail(letters))

\* C13: a token made of a dash and only the letters j, p, v, h, H, D sets
\* exactly the flags its letters name, sets nothing else, adds nothing to
\* the extras and takes no other token, which is what its letters do as
\* separate short flags.
C13_ClusterStep ==
    (ReadsToken /\ IsFlagCluster(Head(iter))) =>
        LET t == Head(iter)
            sep == SeparateFlags(AfterRead, Tail(t))
        IN  /\ \A f \in FlagNames :
                  opts'[f] = (opts[f] \/ \E i \in 2..Len(t) :
                                            FlagOfLetter(t[i]) = f)
            /\ opts'.filter = opts.filter
            /\ opts'.filter_case_insensitive = opts.filter_case_insensitive
            /\ remaining' = remaining
            /\ iter' = Tail(iter)
            /\ opts' = sep.opts
            /\ remaining' = sep.remaining

\* C13: argv [kv, mem, -jpv] gives subcommand mem, json, pretty and verbose
\* true, every other flag as without the cluster, and no extras.
C13_Example ==
    (Parsed /\ argv = <<Prog, Mem, DashJpv>>) =>
        /\ subcommand = Some(Mem)
        /\ opts = [GlobalOptionsDefault EXCEPT !.json = TRUE,
                       !.pretty = TRUE, !.verbose = TRUE, !.debug = kvDebug]
        /\ remaining = <<>>

\* C13: a combined short cluster of flag letters sets exactly the flags it
\* names, as the separate short flags would, and adds no extra; [kv, mem,
\* -jpv] yields mem with json, pretty and verbose.
C13_ClusterSetsItsFlags == [][C13_ClusterStep]_vars /\ []C13_Example

\* C13 witness: [kv, mem, -jpv] has been parsed by the combo arm
C13_Witness ==
    /\ pc = "parsed"
    /\ argv = <<Prog, Mem, DashJpv>>
    /\ lastArm = "combo"
    /\ opts.json /\ opts.pretty /\ opts.verbose
    /\ remaining = <<>>

\* C14: a short cluster that contains the letter f or F is not split: the
\* step that reads it changes no flag and no filter, takes no other token
\* and appends the cluster, whole and once, to the extras.
C14_Step ==
    (/\ ReadsToken
     /\ IsShortCluster(Head(iter))
     /\ \E i \in 2..Len(Head(iter)) : Head(iter)[i] \in {102, 70}) =>
        /\ opts' = opts
        /\ iter' = Tail(iter)
        /\ remaining' = Append(remaining, Head(iter))
        /\ warnings' = warnings

\* C14: a short cluster with f or F in it sets no flag and no filter,
\* consumes no following token and is passed through whole, exactly once,
\* as a positional extra.
C14_FilterClusterPassedThrough == [][C14_Step]_vars

\* C14 witness: [kv, mem, -jf, wlan0] has been parsed; -jf did not set json
\* or a filter and stands once among the extras, before wlan0
C14_Witness ==
    /\ pc = "parsed"
    /\ argv = <<Prog, Mem, DashJf, Wlan0>>
    /\ ~opts.json
    /\ opts.filter = None
    /\ remaining = <<DashJf, Wlan0>>

\* the flags that take the next token as their value
ValueFlags == {DashF, DashDashFilter, DashBigF, DashDashIfilter}

\* C15: when -f or --filter is followed by a token t, the step takes both:
\* the filter becomes t (t is no longer than the cap here), caseInsensitive
\* becomes false, and t changes no flag, is no extra and is not read again.
C15_Step ==
    (ReadsToken /\ Head(iter) \in {DashF, DashDashFilter} /\ Len(iter) >= 2) =>
        LET t == iter[2]
        IN  /\ ByteLen(t) <= MAX_FILTER_LEN => opts'.filter = Some(t)
            /\ ~opts'.filter_case_insensitive
            /\ \A f \in FlagNames : opts'[f] = opts[f]
            /\ remaining' = remaining
            /\ iter' = Tail(Tail(iter))
            /\ subcommand' = subcommand

\* C15: argv [kv, net, -f, wlan0] gives subcommand net, filter wlan0 and
\* caseInsensitive false.
C15_Example ==
    (Parsed /\ argv = <<Prog, Net, DashF, Wlan0>>) =>
        /\ subcommand = Some(Net)
        /\ opts.filter = Some(Wlan0)
        /\ ~opts.filter_case_insensitive
        /\ remaining = <<>>

\* C15: the token after -f / --filter is consumed as the filter value,
\* caseInsensitive becomes false, and the token is never also taken as a
\* flag, a subcommand or an extra, even when it starts with a dash.
C15_FilterTakesNextToken == [][C15_Step]_vars /\ []C15_Example

\* C15 witness: [kv, net, -f, -jpv] has been parsed; the cluster is the
\* filter and has set no flag
C15_Witness ==
    /\ pc = "parsed"
    /\ argv = <<Prog, Net, DashF, DashJpv>>
    /\ opts.filter = Some(DashJpv)
    /\ ~opts.json /\ ~opts.pretty /\ ~opts.verbose
    /\ remaining = <<>>

\* no character of s has a lower-case mapping: s is its own lower-casing
IsLowerCased(s) == \A i \in DOMAIN s : LowerChar(s[i]) = <<s[i]>>

\* C16: caseInsensitive is true only if a filter is stored and the filter is
\* its own lower-casing; [kv, -F, UP] gives no subcommand, filter "up" and
\* caseInsensitive true; and -f with any value, read in this state, leaves
\* caseInsensitive false.
C16_CaseInsensitiveFilterIsLower ==
    /\ opts.filter_case_insensitive =>
          opts.filter # None /\ IsLowerCased(opts.filter[1])
    /\ (Parsed /\ argv = <<Prog, DashBigF, Up>>) =>
          /\ subcommand = None
          /\ opts.filter = Some(<<117, 112>>)
          /\ opts.filter_case_insensitive
    /\ \A t \in Tokens :
          ~MatchArg([opts |-> opts, remaining |-> remaining,
                     iter |-> <<t>>, warnings |-> warnings],
                    DashF).opts.filter_case_insensitive

\* C16 witness: [kv, -F, UP] has been parsed
C16_Witness ==
    /\ pc = "parsed"
    /\ argv = <<Prog, DashBigF, Up>>
    /\ opts.filter = Some(<<117, 112>>)
    /\ opts.filter_case_insensitive

\* C17: a value-taking flag read as the last token changes nothing: the
\* options, the extras and the warnings stay as they were, and the loop has
\* no token left, so the parse returns.
C17_Step ==
    (ReadsToken /\ Head(iter) \in ValueFlags /\ Len(iter) = 1) =>
        /\ opts' = opts
        /\ remaining' = remaining
        /\ warnings' = warnings
        /\ iter' = <<>>
        /\ pc' = "options"

\* C17: with no earlier filter the dropped flag leaves filter None and
\* caseInsensitive false.
C17_Example ==
    (/\ Parsed
     /\ Len(argv) = 3
     /\ argv[2] = Mem
     /\ argv[3] \in ValueFlags) =>
        /\ opts.filter = None
        /\ ~opts.filter_case_insensitive
        /\ remaining = <<>>

\* C17: -f, --filter, -F or --ifilter as the last token is dropped silently:
\* parsing completes and filter and caseInsensitive keep the values they
\* had (None and false when no filter came before).
C17_TrailingValueFlagDropped == [][C17_Step]_vars /\ []C17_Example

\* C17 witness: [kv, -F, UP, -f] has been parsed; the trailing -f left the
\* earlier filter "up" and caseInsensitive true in place
C17_Witness ==
    /\ pc = "parsed"
    /\ argv = <<Prog, DashBigF, Up, DashF>>
    /\ lastArm = "filter"
    /\ opts.filter = Some(<<117, 112>>)
    /\ opts.filter_case_insensitive

(***************************************************************************)
(* Claims about the length of the filter, checked under SpecCliLong.       *)
(***************************************************************************)
\* s is a prefix of t
IsPrefixOf(s, t) == Len(s) <= Len(t) /\ SubSeq(t, 1, Len(s)) = s

\* the cap as C18 states it, with lengths measured by Size (characters or
\* bytes): the stored filter is no longer than the maximum; a supplied
\* pattern longer than the maximum is stored as a prefix of exactly the
\* maximum length, a shorter one unchanged (both in lower case after -F)
FilterCapped(Size(_)) ==
    opts.filter # None =>
        LET supplied == argv[3]
            stored == opts.filter[1]
            wanted == IF opts.filter_case_insensitive
                      THEN to_lowercase(supplied) ELSE supplied
        IN  /\ Size(stored) <= MAX_FILTER_LEN
            /\ IF Size(supplied) > MAX_FILTER_LEN
               THEN Size(stored) = MAX_FILTER_LEN /\ IsPrefixOf(stored, wanted)
               ELSE stored = wanted

\* C18: the stored filter pattern is never longer than MAX_FILTER_LEN: a
\* longer pattern is stored as its prefix of exactly that length, a pattern
\* at or below it unchanged.  Lengths may be read as characters or as
\* bytes; the statement is required under one of the two.
C18_FilterNeverLongerThanMax == FilterCapped(Len) \/ FilterCapped(ByteLen)

(***************************************************************************)
(* Claims about the subcommand and the exit code, checked under SpecCli.   *)
(***************************************************************************)
\* the tokens Invocation::parse_from treats as top-level requests
TopLevelTokens == {DashDashHelp, DashBigH, DashDashVersion, DashBigV, Help}

\* the positions of args that hold a candidate subcommand: a token that is
\* no flag (does not start with a dash), no top-level token and not the
\* value of an -f / -F before it
NonFlagPositions(args) ==
    {i \in DOMAIN args :
        /\ ~starts_with(args[i], <<45>>)
        /\ args[i] \notin TopLevelTokens
        /\ ~(i > 1 /\ args[i - 1] \in ValueFlags)}

\* how many times token t stands in the sequence s
Occurrences(s, t) == Cardinality({i \in DOMAIN s : s[i] = t})

\* C19: unless the vector opens with a top-level token, the subcommand is
\* the first token after the program name that is not a flag, wherever it
\* stands, also after leading flags (None when there is no such token), and
\* that token is not reported among the extras as well.
C19_SubcommandIsFirstNonFlag ==
    (Parsed /\ Len(argv) >= 2 /\ argv[2] \notin TopLevelTokens) =>
        LET args == Tail(argv)
            ps == NonFlagPositions(args)
        IN  IF ps = {}
            THEN subcommand = None
            ELSE LET first == CHOOSE i \in ps : \A j \in ps : i <= j
                 IN  /\ subcommand = Some(args[first])
                     /\ Occurrences(remaining, args[first])
                            < Occurrences(args, args[first])

\* C20: the exit code is 1 when the subcommand is missing or is not a
\* compiled-in subcommand and 0 otherwise; no other code is produced.  A
\* top-level token taken as the subcommand (--help, -H, --version, -V,
\* help) is a request, not a missing or unknown subcommand.
C20_ExitCodeIsUsageOrSuccess ==
    pc = "exited" =>
        LET usage == \/ subcommand = None
                     \/ /\ subcommand[1] \notin features
                        /\ subcommand[1] \notin TopLevelTokens
        IN  exitCode = Some(IF usage THEN 1 ELSE 0)

(***************************************************************************)
(* Claims about filter matching, checked under SpecFilter.                 *)
(***************************************************************************)
\* C21: matches_any(fields, "", case_insensitive) is true for every list of
\* fields, the empty list included, and for both values of
\* case_insensitive.
C21_EmptyPatternAlwaysMatches ==
    (matched # None /\ filterPattern = <<>>) => matched = Some(TRUE)

\* f = a \o p \o b for some a and b: p is a contiguous part of f
IsSubstring(p, f) ==
    \E i \in 0..Len(f) : \E j \in i..Len(f) : SubSeq(f, i + 1, j) = p

\* p and f are the same string up to the case of their letters, and differ
DiffersOnlyByCase(p, f) == p # f /\ to_lowercase(p) = to_lowercase(f)

\* C22: in case-sensitive mode the result is true exactly when at least one
\* field contains the pattern as a contiguous substring with identical
\* case; a pattern that differs from every field only by letter case does
\* not match.
C22_CaseSensitiveIsSubstringSearch ==
    (matched # None /\ ~caseInsensitive) =>
        /\ matched = Some(\E i \in DOMAIN filterFields :
                              IsSubstring(filterPattern, filterFields[i]))
        /\ (/\ filterFields # <<>>
            /\ \A i \in DOMAIN filterFields :
                  DiffersOnlyByCase(filterPattern, filterFields[i]))
             => matched = Some(FALSE)

\* C22 witness: a case-sensitive search found a pattern of two letters
\* inside the second field only, and another one missed a field that is the
\* pattern in another case.
C22_Witness ==
    /\ matched # None /\ ~caseInsensitive
    /\ \/ /\ matched = Some(TRUE)
          /\ Len(filterPattern) = 2
          /\ Len(filterFields) = 2
          /\ ~IsSubstring(filterPattern, filterFields[1])
       \/ /\ matched = Some(FALSE)
          /\ filterFields # <<>>
          /\ \A i \in DOMAIN filterFields :
                DiffersOnlyByCase(filterPattern, filterFields[i])

\* C23: through matches_filter(pattern, true) a pattern matches whatever
\* its letter case: if a field contains the pattern under case folding the
\* result is true, for the lower-case, upper-case and mixed-case spelling
\* alike.
C23_CaseInsensitiveAnySpelling ==
    (/\ matched # None /\ caseInsensitive
     /\ \E i \in DOMAIN filterFields :
           IsSubstring(to_lowercase(filterPattern),
                       to_lowercase(filterFields[i])))
      => matched = Some(TRUE)

(***************************************************************************)
(* Claims about the debug flag and the environment, checked under SpecCli. *)
(***************************************************************************)
\* the positions of the stores in the log
Stores == {i \in DOMAIN dbgLog : dbgLog[i] = "store"}

\* C24: in every run the process-wide debug flag is written exactly once,
\* at start-up, and every read of it (every dbg_* macro reached during
\* argument handling, file access or directory scan) comes after that
\* write.
C24_DebugFlagWrittenOnceBeforeReads ==
    /\ Cardinality(Stores) <= 1
    /\ pc = "exited" => Cardinality(Stores) = 1
    /\ \A i \in DOMAIN dbgLog :
          dbgLog[i] = "load" => \E j \in Stores : j < i

\* C24 witness: a run with -D has exited after a subcommand that reached a
\* dbg_* macro: one store, then the two loads of main.rs and the load of
\* io.rs.
C24_Witness ==
    /\ pc = "exited"
    /\ opts.debug
    /\ exitCode = Some(0)
    /\ dbgLog = <<"store", "load", "load", "load">>

\* args with the token t put in after its first i tokens
InsertAt(args, i, t) ==
    SubSeq(args, 1, i) \o <<t>> \o SubSeq(args, i + 1, Len(args))

\* the steps of a run and the function parse_from agree on the Invocation
ParsedAsFunction ==
    Parsed =>
        LET inv == parse_from(IF argv = <<>> THEN <<>> ELSE Tail(argv),
                              kvDebug)
        IN  /\ subcommand = inv.subcommand
            /\ opts = inv.options
            /\ remaining = inv.args

\* C25: setting KV_DEBUG=1 is equivalent to passing -D: for every argument
\* vector the debug option with KV_DEBUG=1 set equals the debug option the
\* vector with -D added gives with KV_DEBUG unset (here: with -D added at
\* some place), and with neither present debug is false.
C25_EnvEquivalentToDashD ==
    (Parsed /\ argv # <<>>) =>
        LET args == Tail(argv) IN
        /\ kvDebug =>
              \E i \in 0..Len(args) :
                 opts.debug =
                     parse_from(InsertAt(args, i, DashBigD), FALSE)
                         .options.debug
        /\ (~kvDebug /\ \A i \in DOMAIN args : args[i] # DashBigD)
              => ~opts.debug

\* C28: every token scanned by GlobalOptions::parse is classified once and
\* atomically: a token that is appended to the positional extras changes no
\* option, and a token that changes an option is not appended to the
\* extras; in particular a short cluster with an unrecognised letter sets
\* none of the flags its other letters name.
C28_TokenClassifiedAtomically ==
    [][ReadsToken => ~(remaining' # remaining /\ opts' # opts)]_vars

(***************************************************************************)
(* Claims about the file readers, checked under SpecIo.                    *)
(***************************************************************************)
\* the path cannot be read as text: missing, not permitted, a directory,
\* or bytes that are not UTF-8
ReadFails == file.kind # "file" \/ ~Utf8Valid(file.bytes)

\* the characters of a file that can be read as text
FileText == Utf8Decode(file.bytes)

\* t is s without the whitespace at its two ends, and is not empty
IsTrimOf(t, s) ==
    \E i \in DOMAIN s : \E j \in i..Len(s) :
       /\ t = SubSeq(s, i, j)
       /\ ~IsWhitespace(s[i]) /\ ~IsWhitespace(s[j])
       /\ \A k \in DOMAIN s : (k < i \/ k > j) => IsWhitespace(s[k])

\* the text of the file, trimmed, when there is some: what
\* read_file_string is to return
TrimmedText ==
    IF ReadFails THEN None
    ELSE IF \A k \in DOMAIN FileText : IsWhitespace(FileText[k]) THEN None
    ELSE Some(CHOOSE t \in {SubSeq(FileText, i, j) :
                               i \in DOMAIN FileText, j \in DOMAIN FileText} :
                  IsTrimOf(t, FileText))

\* t without an optional leading '+', then without its leading zeros
Unsigned(t) == IF t # <<>> /\ t[1] = 43 THEN Tail(t) ELSE t

RECURSIVE NoLeadingZeros(_)
NoLeadingZeros(t) ==
    IF Len(t) > 1 /\ t[1] = 48 THEN NoLeadingZeros(Tail(t)) ELSE t

\* every u8 written in base 10, and in base 16 in lower case
DecimalTable == [v \in 0..U8_MAX |-> Digits(v)]
HexTable ==
    [v \in 0..U8_MAX |->
        IF v < 16 THEN <<HexDigit(v)>>
        ELSE <<HexDigit(v \div 16), HexDigit(v % 16)>>]

\* t without an optional leading 0x or 0X
Unprefixed(t) ==
    IF Len(t) >= 2 /\ t[1] = 48 /\ t[2] \in {120, 88}
    THEN SubSeq(t, 3, Len(t)) ELSE t

\* the u8 that t is a numeral of, if there is one: in base 10 an optional
\* '+', leading zeros, the digits; in base 16 the same after an optional
\* prefix 0x or 0X, in either case of the letters
NumberOf(t, table) ==
    LET digits == NoLeadingZeros(Unsigned(t))
        vs == {v \in DOMAIN table : table[v] = digits}
    IN  IF vs = {} THEN None ELSE Some(CHOOSE v \in vs : TRUE)

\* C26: read_file_string never fails the caller: it returns Some(text),
\* not empty and with the surrounding whitespace trimmed, or None, and it
\* returns None for every kind of failure alike (missing, permission
\* denied, empty or whitespace-only, not valid UTF-8); read_file_parse and
\* read_file_hex, built on it, also return None on any parse failure.
C26_ReadersReturnNoneOnFailure ==
    /\ ioCall = "read_file_string" => ioRet = TrimmedText
    /\ ioCall = "read_file_parse" =>
          ioRet = IF TrimmedText = None THEN None
                  ELSE NumberOf(TrimmedText[1], DecimalTable)
    /\ ioCall = "read_file_hex" =>
          ioRet = IF TrimmedText = None THEN None
                  ELSE NumberOf(to_lowercase(Unprefixed(TrimmedText[1])),
                                HexTable)

\* C26 witness: read_file_parse read a file whose text, once trimmed, is
\* not empty and is no number, and returned None.
C26_Witness ==
    /\ ioCall = "read_file_parse"
    /\ TrimmedText # None
    /\ Len(TrimmedText[1]) < Len(file.bytes)
    /\ ioRet = None

(***************************************************************************)
(* Claims about the devicetree walk, checked under SpecDt.                 *)
(***************************************************************************)
\* the depth argument of the outermost call
StartDepth == frames[1].depth

\* every name of the path is the name of a directory, not of a symlink
OnlyDirectories(path) ==
    \A k \in DOMAIN path : EntryKind(tree, path[k]) # "symlink"

\* what holds of the walk at every moment
WalkBounded ==
    /\ Len(nodes) <= MAX_NODE_COUNT
    /\ \A k \in DOMAIN frames :
          /\ frames[k].at = "loop" => frames[k].depth <= MAX_RECURSION_DEPTH
          /\ OnlyDirectories(frames[k].path)
    /\ \A k \in DOMAIN nodes :
          /\ StartDepth + Len(nodes[k]) <= MAX_RECURSION_DEPTH
          /\ OnlyDirectories(nodes[k])
    /\ StartDepth > MAX_RECURSION_DEPTH => nodes = <<>>

\* C27: read_dt_recursive always terminates and is bounded for every
\* directory tree: it never descends below depth MAX_RECURSION_DEPTH,
\* never enters a symlink, the node list never holds more than
\* MAX_NODE_COUNT nodes, and called with a depth over the limit it adds no
\* node.
C27_WalkTerminatesAndIsBounded ==
    /\ []WalkBounded
    /\ <>(frames[1].at = "returned")

\* C27 witness: the walk of a chain of directories deeper than the limit
\* has returned with one node for each depth from 0 to the limit.
C27_Witness ==
    /\ frames[1].at = "returned"
    /\ tree.depth > MAX_RECURSION_DEPTH
    /\ StartDepth = 0
    /\ Len(nodes) = MAX_RECURSION_DEPTH + 1

\* the walk of a directory with more subdirectories than the node limit
\* has returned with the list full
NodeLimitReached ==
    /\ frames[1].at = "returned"
    /\ tree.width >= MAX_NODE_COUNT
    /\ Len(nodes) = MAX_NODE_COUNT

(***************************************************************************)
(* Claims about the indentation and the two modes of the JsonWriter.       *)
(***************************************************************************)
\* C29: for every properly nested sequence of JsonWriter calls,
\* indent_level equals the number of containers currently open (opened by
\* begin_object, begin_array, field_object, field_array or
\* array_object_begin and not yet closed), it never goes below zero, and
\* it is back at zero once the outermost container is closed.
C29_IndentLevelIsOpenContainers ==
    fmt = "json" =>
        /\ jw.indent_level = Len(ctx)
        /\ jw.indent_level >= 0
        /\ rootDone => jw.indent_level = 0

\* C29 witness: a document with a container inside its outermost
\* container is complete, and indent_level is zero again.
C29_Witness ==
    /\ fmt = "json" /\ rootDone
    /\ jw.indent_level = 0
    /\ Count(jw.output, 123) + Count(jw.output, 91) >= 2
    /\ Count(jw.output, 125) + Count(jw.output, 93) >= 2

\* o from its i-th character on, without the whitespace that is outside
\* string literals; inStr: o[i] is inside a literal, esc: o[i] follows a
\* backslash
RECURSIVE StripFrom(_, _, _, _)
StripFrom(o, i, inStr, esc) ==
    IF i > Len(o) THEN <<>>
    ELSE IF inStr
         THEN <<o[i]>> \o StripFrom(o, i + 1, esc \/ o[i] # 34,
                                    ~esc /\ o[i] = 92)
    ELSE IF o[i] \in JsonWhitespace THEN StripFrom(o, i + 1, FALSE, FALSE)
    ELSE <<o[i]>> \o StripFrom(o, i + 1, o[i] = 34, FALSE)

StripWhitespace(o) == StripFrom(o, 1, FALSE, FALSE)

\* C30: pretty mode changes only insignificant whitespace: for every
\* sequence of JsonWriter calls the pretty output with all whitespace
\* outside string literals removed is the compact output of the same
\* sequence, and the compact output has no whitespace outside string
\* literals.
C30_PrettyIsCompactPlusWhitespace ==
    /\ StripWhitespace(wPretty.output) = wCompact.output
    /\ StripWhitespace(wCompact.output) = wCompact.output

\* C30 witness: after the last call the pretty output is longer than the
\* compact one, a container is open, and the compact output holds a string
\* literal with a space and an escaped quote in it.
C30_Witness ==
    /\ pairCalls = MaxPairCalls
    /\ Len(wPretty.output) > Len(wCompact.output)
    /\ Count(wCompact.output, 32) >= 2
    /\ Count(wCompact.output, 92) >= 1
    /\ wCompact.indent_level >= 1

====
